---- MODULE Spec2Model ----
(***************************************************************************)
(* Job orchestration of the clip service (server/app/routes/process.py):   *)
(* the two in-memory job registries, the three submission endpoints, the   *)
(* status / result / delete endpoints and the three background workers     *)
(* (uploaded-file analysis, URL analysis, timeline render), together with  *)
(* the concurrent chunk transcription of whisper_service.transcribe_chunks *)
(* and the profiler registry of utils/performance_profiler.py.             *)
(*                                                                         *)
(* Everything runs on one asyncio event loop.  A worker action is the code *)
(* from one external call (a stage, a tool, an I/O call) up to the next    *)
(* one.  A call that really suspends (asyncio subprocess, to_thread,       *)
(* gather, the response being sent) lets other tasks run; a blocking call  *)
(* (subprocess.run, requests.get, print) does not, so no other task runs   *)
(* between the two actions around it.                                      *)
(***************************************************************************)
EXTENDS Integers, Sequences, FiniteSets, TLC

\* ---------------------------------------------------------------- bounds
MaxJobs == 2
MaxChunks == 2
MaxDownloadChunks == 2
\* chunks of the video of the one job of PipelineSpec: more than the
\* semaphore admits at a time
MaxTasks == 4
\* items of the timeline of a render request
MaxItems == 2
\* the longest timeline a call of the renderer is followed with
MaxSegments == 3
\* the top clips of a scoring, the chunks of a transcription and the clip
\* limits a clip extraction is followed with
MaxTopClips == 3
MaxFallbackChunks == 5
MaxClipLimit == 3
\* the longest video, in seconds, the chunker is followed with; up to three
\* scene changes are detected in it
MaxDuration == 26
\* the sizes, in iter_content chunks, over which the download progress is
\* also evaluated as a function
MaxSize == 8

JobIds == 1..MaxJobs

\* ------------------------------------------------------ program constants
\* asyncio.Semaphore(3) in transcribe_chunks
SemaphoreLimit == 3
\* os.getenv("WHISPER_LANGUAGE", "auto")
DefaultLanguage == "auto"
\* languages a request's project_context may carry ("none": no language given)
RequestLanguages == {"none", "en", "ml"}
\* Content-Length values of the download response, in units of one
\* iter_content chunk (0: header absent)
ContentLengths == {0, 1, 3}
\* diagnostic text of a failed tool: stderr may be empty
Diagnostics == {<< >>, <<"stderr">>}

VARIABLES
    processing_jobs,   \* process.py:171  job_id -> ProcessingStatus
    render_jobs,       \* process.py:172  job_id -> RenderStatus
    services,          \* process.py:29-37  the global services are constructed
    whisper_language,  \* whisper_service.language of the one global service
    active_profilers,  \* performance_profiler.py:212, the keys
    kind,              \* job_id -> "upload" | "url" | "render" | "none"
    pc,                \* job_id -> position of the handler / worker
    req_language,      \* job_id -> project_context.language of the request
    chunks,            \* job_id -> state of each transcribe_chunk task
    download,          \* job_id -> [total_size, downloaded_size]
    profiled,          \* job_id -> profiler.results is non-empty
    next_id,           \* number of job ids generated so far, plus one
    resp,              \* the last HTTP response sent
    deleted,           \* ids whose record an explicit delete removed
    used_language,     \* job_id -> languages its transcription calls used
    final_result,      \* job_id -> keys of the worker's local final_result
    raised,            \* job_id -> the exception a handler of the worker holds
    request,           \* job_id -> the validated RenderRequest of a render job
    processed_clips,   \* job_id -> preprocess_timeline_items' processed_clips
    mute_regions,      \* job_id -> render_timeline_video's local mute_regions
    calls,             \* job_id -> the external tool runs of the job, in order
    mixer,             \* job_id -> the inputs of the mix command that was run
    generated_clips,   \* file name in generated_clips/ -> the job that wrote it
    rendered_videos,   \* job_id -> what is at its output path in rendered_videos/
    render,            \* the locals of one call of the renderer, file by file
    locals             \* the locals of one call of a function of the services

vars == <<processing_jobs, render_jobs, services, whisper_language, active_profilers,
          kind, pc, req_language, chunks, download, profiled, next_id, resp,
          deleted, used_language, final_result, raised, request,
          processed_clips, mute_regions, calls, mixer, generated_clips, rendered_videos, render, locals>>

\* the registries, the workers and their files
job_vars == <<processing_jobs, render_jobs, services, whisper_language, active_profilers,
          kind, pc, req_language, chunks, download, profiled, next_id, resp,
          deleted, used_language, final_result, raised, request,
          processed_clips, mute_regions, calls, mixer, generated_clips, rendered_videos>>

\* ------------------------------------------------------------ job records
\* process.py:155-160 RenderRequest; NoRequest: no request, or one whose
\* content is left out
NoRequest == [timeline_clips |-> << >>, bgm_filename |-> "none", sfx_list |-> << >>]
\* video_renderer.py:148, 175: the name of the file an image or a text item
\* is synthesized into, f"image_{idx}.mp4" or f"text_{idx}.mp4", idx counting from 0
SegmentName(type, idx) == <<type, "_", idx, ".mp4">>
\* the names a render can write into generated_clips/
GeneratedNames == {SegmentName(type, idx) : type \in {"image", "text"}, idx \in 0..(MaxItems - 1)}
\* no call of the renderer is followed file by file
NoRender == [step |-> "none"]
\* no call of a function of the services is followed
NoLocals == [fn |-> "none"]
\* no mix command has run
NoMix == [ran |-> FALSE, bgm |-> FALSE, mute_regions |-> << >>, sfx |-> << >>]

NoResult == [present |-> FALSE, keys |-> {}]
NoError == [present |-> FALSE, text |-> << >>]
Result(ks) == [present |-> TRUE, keys |-> ks]
Error(txt) == [present |-> TRUE, text |-> txt]

\* process.py:260-265 / 310-315: ProcessingStatus(job_id, "processing", 0.0, step)
ProcessingStatus_bad_progress(step) ==
    [status |-> "processing", progress |-> 10, current_step |-> step,
     result |-> NoResult, error |-> NoError]
ProcessingStatus(step) ==
    [status |-> "processing", progress |-> 0, current_step |-> step,
     result |-> NoResult, error |-> NoError]

\* process.py:816-821: RenderStatus(job_id, "rendering", 0.0, "preparing")
RenderStatus(step) ==
    [status |-> "rendering", progress |-> 0, current_step |-> step,
     result |-> NoResult, error |-> NoError]

\* the locals total_size and downloaded_size outside the download loop
NoDownload == [total_size |-> 0, downloaded_size |-> 0]

NoJob == [status |-> "", progress |-> 0, current_step |-> << >>,
          result |-> NoResult, error |-> NoError]

RunningStatus == {"processing", "rendering"}
TerminalStatus == {"completed", "failed"}

\* ----------------------------------------------------------- event loop
\* positions at which a worker is inside a block of code that holds the
\* event loop: the next thing it does is a blocking call
InBlock_suspending_writes ==
    {"saving", "chunking", "clips", "download_start", "downloading",
     "summary", "materialize", "concat_list", "normalize",
     "concatenate", "audio_check", "mix_or_finalize", "output_check",
     "complete", "except", "except_request"}
InBlock ==
    {"saving", "chunking", "clips", "download_start", "downloading",
     "summary", "materialize", "concat_list", "normalize",
     "concatenate", "audio_check", "mix_or_finalize", "output_check",
     "complete", "complete_fields", "except", "except_fields",
     "except_request", "except_request_fields"}

\* the response a handler has returned and the server has not sent yet
NoResponse == [op |-> "none", reg |-> "none", id |-> 0, code |-> 0,
               job |-> NoJob, result |-> NoResult]

\* no task is in the middle of a block and no response is waiting to be
\* sent: handlers and suspended tasks may run
LoopIdle == resp = NoResponse /\ \A k \in JobIds : pc[k] \notin InBlock

\* ------------------------------------------------------------- responses
\* ids a client can send: those a submission has returned, and ids no
\* submission has generated, which stand for any other string; a generated
\* id (uuid4) is unknown to every client until its submission returns
ClientIds == {j \in JobIds : pc[j] # "reading"}

Respond(op, reg, j, code, job, result) ==
    [op |-> op, reg |-> reg, id |-> j, code |-> code, job |-> job,
     result |-> result]

\* --------------------------------------------------------------- registry
Registry(reg) == IF reg = "render" THEN render_jobs ELSE processing_jobs

RegOf(j) == IF kind[j] = "render" THEN "render" ELSE "processing"

\* the record of job j in its own registry
Present(j) == j \in DOMAIN Registry(RegOf(j))
Rec(j) == Registry(RegOf(j))[j]

\* del jobs[job_id]  (process.py:673, 920)
Remove_all(jobs, j) == [k \in {} |-> jobs[k]]
Remove(jobs, j) == [k \in DOMAIN jobs \ {j} |-> jobs[k]]

\* jobs[job_id].<field> = <value>, for the fields of upd, on a present record
Assign_drop_failed(jobs, j, upd) ==
    IF "status" \in DOMAIN upd /\ upd.status = "failed"
    THEN [k \in DOMAIN jobs \ {j} |-> jobs[k]]
    ELSE [jobs EXCEPT ![j] = upd @@ @]
Assign(jobs, j, upd) == [jobs EXCEPT ![j] = upd @@ @]

\* ------------------------------------------------------------------- Init
JobsInit ==
    /\ processing_jobs = [k \in {} |-> NoJob]
    /\ render_jobs = [k \in {} |-> NoJob]
    /\ services = FALSE
    /\ whisper_language = DefaultLanguage
    /\ active_profilers = {}
    /\ kind = [j \in JobIds |-> "none"]
    /\ pc = [j \in JobIds |-> "none"]
    /\ req_language = [j \in JobIds |-> "none"]
    /\ chunks = [j \in JobIds |-> << >>]
    /\ download = [j \in JobIds |-> NoDownload]
    /\ profiled = [j \in JobIds |-> FALSE]
    /\ next_id = 1
    /\ resp = NoResponse
    /\ deleted = {}
    /\ used_language = [j \in JobIds |-> {}]
    /\ final_result = [j \in JobIds |-> {}]
    /\ raised = [j \in JobIds |-> NoError]
    /\ request = [j \in JobIds |-> NoRequest]
    /\ processed_clips = [j \in JobIds |-> << >>]
    /\ mute_regions = [j \in JobIds |-> << >>]
    /\ calls = [j \in JobIds |-> << >>]
    /\ mixer = [j \in JobIds |-> NoMix]
    /\ generated_clips = [name \in GeneratedNames |-> 0]
    /\ rendered_videos = [j \in JobIds |-> "absent"]

Init == JobsInit /\ render = NoRender /\ locals = NoLocals

\* what the handlers other than the submissions leave alone
WorkerUnchanged ==
    UNCHANGED <<services, whisper_language, active_profilers, kind, pc,
                req_language, chunks, download, profiled, next_id, used_language,
                final_result, raised, request, processed_clips, mute_regions,
                calls, mixer, generated_clips, rendered_videos, render, locals>>

\* ------------------------------------------------------------ submissions
\* process.py:226-265  upload_and_analyze_video, up to `await file.read()`:
\* the record is stored, the handler is suspended reading the upload
upload_and_analyze_video(lang) ==
    /\ LoopIdle
    /\ next_id <= MaxJobs
    /\ LET j == next_id IN
        /\ processing_jobs' = (j :> ProcessingStatus(<<"uploading">>)) @@ processing_jobs
        /\ kind' = [kind EXCEPT ![j] = "upload"]
        /\ pc' = [pc EXCEPT ![j] = "reading"]
        /\ req_language' = [req_language EXCEPT ![j] = lang]
        /\ next_id' = next_id + 1
    /\ UNCHANGED <<render_jobs, services, whisper_language, active_profilers, chunks,
                   download, profiled, resp, deleted, used_language, final_result, raised,
                   request, processed_clips, mute_regions, calls, mixer, generated_clips, rendered_videos, render, locals>>

\* process.py:267-283  the upload is read, the worker is added to the
\* response's background tasks and the id is returned
upload_and_analyze_video_return(j) ==
    /\ LoopIdle
    /\ pc[j] = "reading"
    /\ pc' = [pc EXCEPT ![j] = "queued"]
    /\ resp' = Respond("upload_and_analyze", "processing", j, 200, NoJob, NoResult)
    /\ UNCHANGED <<processing_jobs, render_jobs, services, whisper_language,
                   active_profilers, kind, req_language, chunks, download,
                   profiled, next_id, deleted, used_language, final_result, raised,
                   request, processed_clips, mute_regions, calls, mixer, generated_clips, rendered_videos, render, locals>>

\* process.py:240-244  unsupported format or file too large: 400, nothing stored
upload_and_analyze_video_rejected ==
    /\ LoopIdle
    /\ resp' = Respond("upload_and_analyze", "processing", 0, 400, NoJob, NoResult)
    /\ UNCHANGED <<processing_jobs, render_jobs, deleted>>
    /\ WorkerUnchanged

\* process.py:285-328  process_cloudinary_video with a valid URL
process_cloudinary_video(lang) ==
    /\ LoopIdle
    /\ next_id <= MaxJobs
    /\ LET j == next_id IN
        /\ processing_jobs' = (j :> ProcessingStatus(<<"downloading">>)) @@ processing_jobs
        /\ kind' = [kind EXCEPT ![j] = "url"]
        /\ pc' = [pc EXCEPT ![j] = "queued"]
        /\ req_language' = [req_language EXCEPT ![j] = lang]
        /\ next_id' = next_id + 1
        /\ resp' = Respond("process_cloudinary_video", "processing", j, 200, NoJob, NoResult)
    /\ UNCHANGED <<render_jobs, services, whisper_language, active_profilers, chunks,
                   download, profiled, deleted, used_language, final_result, raised,
                   request, processed_clips, mute_regions, calls, mixer, generated_clips, rendered_videos, render, locals>>

\* process.py:295-304  invalid URL: 400, nothing stored
process_cloudinary_video_rejected ==
    /\ LoopIdle
    /\ resp' = Respond("process_cloudinary_video", "processing", 0, 400, NoJob, NoResult)
    /\ UNCHANGED <<processing_jobs, render_jobs, deleted>>
    /\ WorkerUnchanged

\* process.py:796-831  render_timeline_video with a request that validates
render_timeline_video_request(req) ==
    /\ LoopIdle
    /\ next_id <= MaxJobs
    /\ LET j == next_id IN
        /\ render_jobs' = (j :> RenderStatus(<<"preparing">>)) @@ render_jobs
        /\ request' = [request EXCEPT ![j] = req]
        /\ kind' = [kind EXCEPT ![j] = "render"]
        /\ pc' = [pc EXCEPT ![j] = "queued"]
        /\ next_id' = next_id + 1
        /\ resp' = Respond("render_timeline", "render", j, 200, NoJob, NoResult)
    /\ UNCHANGED <<processing_jobs, services, whisper_language, active_profilers,
                   req_language, chunks, download, profiled, deleted,
                   used_language, final_result, raised, processed_clips,
                   mute_regions, calls, mixer, generated_clips, rendered_videos, render, locals>>

\* the same submission with the content of the request left out
render_timeline_video == render_timeline_video_request(NoRequest)

\* process.py:805-809  RenderRequest(**request) raises: 422, nothing stored
render_timeline_video_rejected ==
    /\ LoopIdle
    /\ resp' = Respond("render_timeline", "render", 0, 422, NoJob, NoResult)
    /\ UNCHANGED <<processing_jobs, render_jobs, deleted>>
    /\ WorkerUnchanged

\* the server sends the response; the background task of a submission
\* starts only after this
send_response ==
    /\ resp # NoResponse
    /\ resp' = NoResponse
    /\ UNCHANGED <<processing_jobs, render_jobs, deleted>>
    /\ WorkerUnchanged

\* ------------------------------------------------- status, result, delete
\* process.py:330-336 get_processing_status, 833-839 get_render_status
get_status(reg, j) ==
    /\ LoopIdle /\ j \in ClientIds
    /\ resp' = IF j \notin DOMAIN Registry(reg)
               THEN Respond("status", reg, j, 404, NoJob, NoResult)
               ELSE Respond("status", reg, j, 200, Registry(reg)[j], NoResult)
    /\ UNCHANGED <<processing_jobs, render_jobs, deleted>>
    /\ WorkerUnchanged

\* the body of get_processing_result / get_render_result for a present job
ResultResponse_any_result(job) ==
    IF job.result.present THEN [code |-> 200, result |-> job.result]
    ELSE [code |-> 400, result |-> NoResult]
ResultResponse(job) ==
    IF job.status # "completed" THEN [code |-> 400, result |-> NoResult]
    ELSE [code |-> 200, result |-> job.result]

\* process.py:338-348 get_processing_result, 841-851 get_render_result
get_result(reg, j) ==
    /\ LoopIdle /\ j \in ClientIds
    /\ resp' = IF j \notin DOMAIN Registry(reg)
               THEN Respond("result", reg, j, 404, NoJob, NoResult)
               ELSE LET r == ResultResponse(Registry(reg)[j])
                    IN Respond("result", reg, j, r.code, NoJob, r.result)
    /\ UNCHANGED <<processing_jobs, render_jobs, deleted>>
    /\ WorkerUnchanged

\* process.py:669-676 delete_job
delete_job(j) ==
    /\ LoopIdle /\ j \in ClientIds
    /\ IF j \in DOMAIN processing_jobs
       THEN /\ processing_jobs' = Remove(processing_jobs, j)
            /\ deleted' = deleted \cup {j}
            /\ resp' = Respond("delete", "processing", j, 200, NoJob, NoResult)
       ELSE /\ resp' = Respond("delete", "processing", j, 404, NoJob, NoResult)
            /\ UNCHANGED <<processing_jobs, deleted>>
    /\ UNCHANGED render_jobs
    /\ WorkerUnchanged

\* process.py:916-923 delete_render_job
delete_render_job(j) ==
    /\ LoopIdle /\ j \in ClientIds
    /\ IF j \in DOMAIN render_jobs
       THEN /\ render_jobs' = Remove(render_jobs, j)
            /\ deleted' = deleted \cup {j}
            /\ resp' = Respond("delete", "render", j, 200, NoJob, NoResult)
       ELSE /\ resp' = Respond("delete", "render", j, 404, NoJob, NoResult)
            /\ UNCHANGED <<render_jobs, deleted>>
    /\ UNCHANGED processing_jobs
    /\ WorkerUnchanged

\* ---------------------------------------------------------------- workers
\* chunk tasks alive in the jobs of S: the model holds at most MaxChunks
\* chunk tasks at a time, over all jobs
RECURSIVE ChunkTasks(_)
ChunkTasks(S) ==
    IF S = {} THEN 0
    ELSE LET k == CHOOSE x \in S : TRUE IN Len(chunks[k]) + ChunkTasks(S \ {k})

\* project_context.language if given, else os.getenv("WHISPER_LANGUAGE", "auto")
\* (process.py:433-436, 526-529)
RequestedLanguage(j) ==
    IF req_language[j] # "none" THEN req_language[j] ELSE DefaultLanguage

\* progress = base + (current / total) * 60.0  (process.py:453, 568);
\* current is index + 1 of the chunk that finished (whisper_service.py:263)
transcription_progress(base, current, total) == base + (current * 60) \div total

\* download_progress = 5.0 + (downloaded_size / total_size) * 15.0, capped
\* at 20.0  (process.py:555-556)
download_progress_uncapped(downloaded_size, total_size) ==
    5 + (downloaded_size * 15) \div total_size
download_progress(downloaded_size, total_size) ==
    LET p == 5 + (downloaded_size * 15) \div total_size
    IN IF p < 20 THEN p ELSE 20

\* process.py:490-492, 608-610, 960-962: the completion writes that follow
\* the write of the status
CompletedUpdate(result) ==
    [progress |-> 100, current_step |-> <<"completed">>, result |-> result]

\* process.py:504-505, 652-653, 967-968: the except handler's writes that
\* follow the write of the status
FailedUpdate(text) ==
    [error |-> Error(text), current_step |-> <<"failed">>]

\* str(e) of an exception that reaches a worker's handler unwrapped
ExceptionText(message) == <<message>>

\* video_renderer.py:332 and 716: the two RuntimeError wrappers around the
\* text of the tool that failed
RenderErrorText_unwrapped(diagnostic) == diagnostic
RenderErrorText(diagnostic) ==
    <<"Project video rendering failed: ", "Video rendering failed: ">> \o diagnostic

\* process.py:637: f"Download failed: {str(e)}"
DownloadErrorText(diagnostic) == <<"Download failed: ">> \o diagnostic

Ended == {"done", "crashed"}

\* positions between the writes of an except handler, where the exception
\* is still bound to e
HandlerFields == {"except_fields", "except_request_fields"}

\* a worker writes upd to its record and goes to p; when the record is gone
\* the subscript raises KeyError, the except handler's own subscript raises
\* it again and the worker ends without writing anything
WriteRecord_setdefault(j, upd, p) ==
    /\ IF Present(j)
       THEN /\ IF kind[j] = "render"
               THEN /\ render_jobs' = Assign(render_jobs, j, upd)
                    /\ UNCHANGED processing_jobs
               ELSE /\ processing_jobs' = Assign(processing_jobs, j, upd)
                    /\ UNCHANGED render_jobs
            /\ pc' = [pc EXCEPT ![j] = p]
       ELSE /\ IF kind[j] = "render"
               THEN /\ render_jobs' = (j :> (upd @@ NoJob)) @@ render_jobs
                    /\ UNCHANGED processing_jobs
               ELSE /\ processing_jobs' = (j :> (upd @@ NoJob)) @@ processing_jobs
                    /\ UNCHANGED render_jobs
            /\ pc' = [pc EXCEPT ![j] = p]
    /\ raised' = IF pc'[j] \in HandlerFields THEN raised
                 ELSE [raised EXCEPT ![j] = NoError]
WriteRecord(j, upd, p) ==
    /\ IF Present(j)
       THEN /\ IF kind[j] = "render"
               THEN /\ render_jobs' = Assign(render_jobs, j, upd)
                    /\ UNCHANGED processing_jobs
               ELSE /\ processing_jobs' = Assign(processing_jobs, j, upd)
                    /\ UNCHANGED render_jobs
            /\ pc' = [pc EXCEPT ![j] = p]
       ELSE /\ UNCHANGED <<processing_jobs, render_jobs>>
            /\ pc' = [pc EXCEPT ![j] = "crashed"]
    /\ raised' = IF pc'[j] \in HandlerFields THEN raised
                 ELSE [raised EXCEPT ![j] = NoError]

\* the worker goes to p without writing to its record
Goto(j, p) ==
    /\ pc' = [pc EXCEPT ![j] = p]
    /\ UNCHANGED <<processing_jobs, render_jobs, raised>>

\* an exception with the text str(e) = text leaves the try block for handler
Raise(j, text, handler) ==
    /\ pc' = [pc EXCEPT ![j] = handler]
    /\ raised' = [raised EXCEPT ![j] = Error(text)]
    /\ UNCHANGED <<processing_jobs, render_jobs>>

\* process.py:39-89 get_services: constructs the services on first use and may
\* raise while doing so; once constructed it returns them
get_services_ok(ok) ==
    /\ services => ok
    /\ services' = (services \/ ok)

\* the worker's arguments and locals live as long as the worker does:
\* project_context (req_language), the languages its calls used and
\* final_result, which becomes fr
Frame(j, fr) ==
    /\ req_language' = IF pc'[j] \in Ended THEN [req_language EXCEPT ![j] = "none"]
                       ELSE req_language
    /\ used_language' = IF pc'[j] \in Ended THEN [used_language EXCEPT ![j] = {}]
                        ELSE used_language
    /\ final_result' = IF pc'[j] \in Ended THEN [final_result EXCEPT ![j] = {}]
                       ELSE [final_result EXCEPT ![j] = fr]

ClientUnchanged == UNCHANGED <<kind, next_id, resp, deleted>>

\* what a worker step that runs no tool of the render leaves alone
JobUnchanged ==
    /\ ClientUnchanged
    /\ UNCHANGED <<request, processed_clips, mute_regions, calls, mixer, generated_clips, rendered_videos, render, locals>>

\* process.py:488-492, 607-610, 959-962: the four completion writes, the
\* status first; no call between them
Complete(j, result, p) ==
    IF pc[j] = "complete"
    THEN WriteRecord(j, [status |-> "completed"], "complete_fields")
    ELSE WriteRecord(j, CompletedUpdate(result), p)

\* process.py:503-505, 651-653, 966-968: the handler's writes, the status
\* first; no call between them
Except(j, upd) ==
    IF pc[j] = "except"
    THEN WriteRecord(j, [status |-> "failed"], "except_fields")
    ELSE WriteRecord(j, upd, "done")

\* ----------------------------------------- process_video_pipeline (upload)
\* process.py:427-440
process_video_pipeline_start(j) ==
    /\ kind[j] = "upload" /\ pc[j] = "queued" /\ LoopIdle
    /\ \E ok \in BOOLEAN :
        /\ get_services_ok(ok)
        /\ IF ok
           THEN /\ whisper_language' = RequestedLanguage(j)
                /\ WriteRecord(j, [current_step |-> <<"saving_file">>, progress |-> 10], "saving")
           ELSE /\ UNCHANGED whisper_language
                /\ Raise(j, ExceptionText("service construction failed"), "except")
    /\ UNCHANGED <<active_profilers, chunks, download, profiled>>
    /\ Frame(j, {})
    /\ JobUnchanged

\* process.py:442-450: the temporary file is written, then "transcribing"
process_video_pipeline_save(j) ==
    /\ kind[j] = "upload" /\ pc[j] = "saving"
    /\ \E ok \in BOOLEAN :
        IF ok
        THEN WriteRecord(j, [current_step |-> <<"transcribing">>, progress |-> 20], "chunking")
        ELSE Raise(j, ExceptionText("No space left on device"), "except")
    /\ UNCHANGED <<services, whisper_language, active_profilers, chunks, download,
                   profiled>>
    /\ Frame(j, {})
    /\ JobUnchanged

\* whisper_service.py:536-549 (called at process.py:457, 573): chunk_video
\* runs (blocking) and the chunk tasks are created; gather suspends the worker
\* the video is cut into at most `most` chunks
chunk_video(j, most) ==
    \E n \in 0..most, raised_in_chunking \in BOOLEAN :
        IF raised_in_chunking
        THEN /\ Raise(j, ExceptionText("Command returned non-zero exit status 1."), "except")
             /\ UNCHANGED chunks
        ELSE IF n = 0
        THEN /\ Raise(j, ExceptionText("No valid chunks created from video"), "except")
             /\ UNCHANGED chunks
        ELSE /\ n + ChunkTasks(JobIds \ {j}) <= most
             /\ chunks' = [chunks EXCEPT ![j] = [i \in 1..n |-> "waiting"]]
             /\ Goto(j, "transcribing")

transcribe_video_file(j) == chunk_video(j, MaxChunks)

\* process.py:457-461
process_video_pipeline_chunk(j) ==
    /\ kind[j] = "upload" /\ pc[j] = "chunking"
    /\ transcribe_video_file(j)
    /\ UNCHANGED <<services, whisper_language, active_profilers, download, profiled>>
    /\ Frame(j, {})
    /\ JobUnchanged

\* ------------------------------ transcribe_chunks (whisper_service.py:229)
InProgress(j) == Cardinality({i \in DOMAIN chunks[j] : chunks[j][i] = "running"})
AllDone(j) == \A i \in DOMAIN chunks[j] : chunks[j][i] = "done"

\* whisper_service.py:245-247: `async with semaphore` of Semaphore(3) lets a
\* task in while fewer than 3 tasks of the call hold it
semaphore_acquire_always(j) == TRUE
semaphore_acquire(j) == InProgress(j) < SemaphoreLimit

\* the progress callback of job j for the chunk with index + 1 = current
\* (process.py:452-455, 567-570); a missing record makes it raise KeyError,
\* which the task's gather absorbs (whisper_service.py:265-283)
ProgressCallback(j, current) ==
    IF Present(j)
    THEN /\ processing_jobs' = Assign(processing_jobs, j,
                [progress |-> transcription_progress(IF kind[j] = "upload" THEN 20 ELSE 25,
                                                     current, Len(chunks[j])),
                 current_step |-> <<"transcribing_chunk", current, Len(chunks[j])>>])
    ELSE UNCHANGED processing_jobs

\* whisper_service.py:247-252 and 75-207: the task of chunk i gets the
\* semaphore (tasks get it in the order they were created) and calls
\* transcribe_audio, which reads self.language and either suspends on the
\* transcription or raises in its checks before suspending
transcribe_chunk_start(j, i) ==
    /\ pc[j] = "transcribing" /\ LoopIdle
    /\ i \in DOMAIN chunks[j] /\ chunks[j][i] = "waiting"
    /\ \A k \in 1..(i - 1) : chunks[j][k] # "waiting"
    /\ semaphore_acquire(j)
    /\ \E checks_ok \in BOOLEAN :
        IF checks_ok
        THEN /\ chunks' = [chunks EXCEPT ![j][i] = "running"]
             /\ used_language' = [used_language EXCEPT ![j] = @ \cup {whisper_language}]
             /\ UNCHANGED processing_jobs
        ELSE /\ chunks' = [chunks EXCEPT ![j][i] = "done"]
             /\ ProgressCallback(j, i)
             /\ UNCHANGED used_language
    /\ UNCHANGED <<render_jobs, services, whisper_language, active_profilers, pc,
                   download, profiled, req_language, final_result, raised>>
    /\ JobUnchanged

\* whisper_service.py:252-277: the transcription of chunk i returns or
\* raises; either way the callback runs with index + 1 and the task ends
transcribe_chunk_finish(j, i) ==
    /\ pc[j] = "transcribing" /\ LoopIdle
    /\ i \in DOMAIN chunks[j] /\ chunks[j][i] = "running"
    /\ chunks' = [chunks EXCEPT ![j][i] = "done"]
    /\ ProgressCallback(j, i)
    /\ UNCHANGED <<render_jobs, services, whisper_language, active_profilers, pc,
                   download, profiled, used_language, req_language, final_result,
                   raised>>
    /\ JobUnchanged

\* process.py:463-468, 579-584: gather has returned and
\* transcribe_video_file returns its result or raises while it merges and
\* removes its temporary directory (whisper_service.py:551-561)
transcribe_video_file_return(j) ==
    \E outcome \in {"vibe", "complete", "raise"} :
        CASE outcome = "vibe" ->
               WriteRecord(j, [current_step |-> <<"analyzing_vibe">>, progress |-> 85], "vibe")
          [] outcome = "complete" -> Goto(j, "complete")
          [] outcome = "raise" ->
               Raise(j, ExceptionText("Directory not empty"), "except")

process_video_pipeline_transcribed(j) ==
    /\ kind[j] = "upload" /\ pc[j] = "transcribing" /\ AllDone(j) /\ LoopIdle
    /\ transcribe_video_file_return(j)
    /\ chunks' = [chunks EXCEPT ![j] = << >>]
    /\ UNCHANGED <<services, whisper_language, active_profilers, download, profiled>>
    /\ Frame(j, IF pc'[j] = "except" THEN final_result[j] ELSE {"transcription"})
    /\ JobUnchanged

\* process.py:470-479: analyze_video_vibe has returned (it never raises,
\* llm_service.py:551-556)
process_video_pipeline_vibe(j) ==
    /\ kind[j] = "upload" /\ pc[j] = "vibe" /\ LoopIdle
    /\ WriteRecord(j, [current_step |-> <<"generating_clips">>, progress |-> 95], "clips")
    /\ UNCHANGED <<services, whisper_language, active_profilers, chunks, download,
                   profiled>>
    /\ Frame(j, final_result[j] \cup {"vibe_analysis"})
    /\ JobUnchanged

\* process.py:481-486: generate_clips_from_pipeline_result has returned (it
\* never raises, clip_generator.py:380-388)
process_video_pipeline_clips(j) ==
    /\ kind[j] = "upload" /\ pc[j] = "clips"
    /\ Goto(j, "complete")
    /\ UNCHANGED <<services, whisper_language, active_profilers, chunks, download,
                   profiled>>
    /\ Frame(j, final_result[j] \cup {"generated_clips"})
    /\ JobUnchanged

\* process.py:488-499: the completion writes, then the cleanup of the file
process_video_pipeline_complete(j) ==
    /\ kind[j] = "upload" /\ pc[j] \in {"complete", "complete_fields"}
    /\ Complete(j, Result(final_result[j]), "done")
    /\ UNCHANGED <<services, whisper_language, active_profilers, chunks, download,
                   profiled>>
    /\ Frame(j, final_result[j])
    /\ JobUnchanged

\* process.py:501-505
process_video_pipeline_except(j) ==
    /\ kind[j] = "upload" /\ pc[j] \in {"except", "except_fields"}
    /\ Except(j, FailedUpdate(raised[j].text))
    /\ UNCHANGED <<services, whisper_language, active_profilers, chunks, download,
                   profiled>>
    /\ Frame(j, final_result[j])
    /\ JobUnchanged

\* ------------------------------- process_cloudinary_video_pipeline (url)
\* performance_profiler.py:214-218
get_profiler(profilers, j) == profilers \cup {j}

\* performance_profiler.py:220-223
cleanup_profiler_keep(profilers, j) == profilers
cleanup_profiler(profilers, j) == profilers \ {j}

\* process.py:665-667: the outer finally, reached when the worker ends
Finally(j, profilers) ==
    active_profilers' = IF pc'[j] \in Ended THEN cleanup_profiler(profilers, j)
                        ELSE profilers

\* process.py:651-663: the outer except handler's writes after the status;
\* has_results is bool(profiler.results)
CloudinaryFailedUpdate(job, text, has_results) ==
    IF has_results
    THEN [result |-> Result(job.result.keys \cup {"performance"})] @@ FailedUpdate(text)
    ELSE FailedUpdate(text)

\* process.py:637-638: the writes of the handler of requests.RequestException
\* after the status
DownloadFailedUpdate(diagnostic) ==
    [error |-> Error(DownloadErrorText(diagnostic)),
     current_step |-> <<"download_failed">>]

\* process.py:518-533
process_cloudinary_video_pipeline_start(j) ==
    /\ kind[j] = "url" /\ pc[j] = "queued" /\ LoopIdle
    /\ \E ok \in BOOLEAN :
        /\ get_services_ok(ok)
        /\ IF ok
           THEN /\ whisper_language' = RequestedLanguage(j)
                /\ WriteRecord(j, [current_step |-> <<"downloading">>, progress |-> 5], "download_start")
           ELSE /\ UNCHANGED whisper_language
                /\ Raise(j, ExceptionText("service construction failed"), "except")
    /\ Finally(j, get_profiler(active_profilers, j))
    /\ UNCHANGED <<chunks, download, profiled>>
    /\ Frame(j, {})
    /\ JobUnchanged

\* process.py:538-548: requests.get, raise_for_status and the Content-Length
process_cloudinary_video_pipeline_request(j) ==
    /\ kind[j] = "url" /\ pc[j] = "download_start"
    /\ \E ok \in BOOLEAN, total_size \in ContentLengths, d \in Diagnostics :
        IF ok
        THEN /\ download' = [download EXCEPT ![j] = [total_size |-> total_size, downloaded_size |-> 0]]
             /\ Goto(j, "downloading")
             /\ UNCHANGED profiled
        ELSE /\ Raise(j, d, "except_request")
             /\ profiled' = [profiled EXCEPT ![j] = TRUE]
             /\ UNCHANGED download
    /\ Finally(j, active_profilers)
    /\ UNCHANGED <<services, whisper_language, chunks>>
    /\ Frame(j, {})
    /\ JobUnchanged

\* process.py:550-565: one round of the iter_content loop, the stream
\* breaking, or the end of the stream followed by "transcribing"
process_cloudinary_video_pipeline_download(j) ==
    /\ kind[j] = "url" /\ pc[j] = "downloading"
    /\ \E outcome \in {"chunk", "error", "end"}, d \in Diagnostics :
        CASE outcome = "chunk" ->
               /\ download[j].downloaded_size < MaxDownloadChunks
               /\ download' = [download EXCEPT ![j].downloaded_size = @ + 1]
               /\ IF download[j].total_size > 0
                  THEN WriteRecord(j, [progress |-> download_progress(
                                          download[j].downloaded_size + 1,
                                          download[j].total_size)], "downloading")
                  ELSE Goto(j, "downloading")
               /\ UNCHANGED profiled
          [] outcome = "error" ->
               /\ Raise(j, d, "except_request")
               /\ profiled' = [profiled EXCEPT ![j] = TRUE]
               /\ download' = [download EXCEPT ![j] = NoDownload]
          [] outcome = "end" ->
               /\ WriteRecord(j, [current_step |-> <<"transcribing">>, progress |-> 25], "chunking")
               /\ profiled' = [profiled EXCEPT ![j] = TRUE]
               /\ download' = [download EXCEPT ![j] = NoDownload]
    /\ Finally(j, active_profilers)
    /\ UNCHANGED <<services, whisper_language, chunks>>
    /\ Frame(j, {})
    /\ JobUnchanged

\* process.py:572-577
process_cloudinary_video_pipeline_chunk(j) ==
    /\ kind[j] = "url" /\ pc[j] = "chunking"
    /\ transcribe_video_file(j)
    /\ Finally(j, active_profilers)
    /\ UNCHANGED <<services, whisper_language, download, profiled>>
    /\ Frame(j, {})
    /\ JobUnchanged

\* process.py:579-584
process_cloudinary_video_pipeline_transcribed(j) ==
    /\ kind[j] = "url" /\ pc[j] = "transcribing" /\ AllDone(j) /\ LoopIdle
    /\ transcribe_video_file_return(j)
    /\ Finally(j, active_profilers)
    /\ chunks' = [chunks EXCEPT ![j] = << >>]
    /\ UNCHANGED <<services, whisper_language, download, profiled>>
    /\ Frame(j, IF pc'[j] = "except" THEN final_result[j] ELSE {"transcription"})
    /\ JobUnchanged

\* process.py:586-596
process_cloudinary_video_pipeline_vibe(j) ==
    /\ kind[j] = "url" /\ pc[j] = "vibe" /\ LoopIdle
    /\ WriteRecord(j, [current_step |-> <<"generating_clips">>, progress |-> 95], "clips")
    /\ Finally(j, active_profilers)
    /\ UNCHANGED <<services, whisper_language, chunks, download, profiled>>
    /\ Frame(j, final_result[j] \cup {"vibe_analysis"})
    /\ JobUnchanged

\* process.py:598-604
process_cloudinary_video_pipeline_clips(j) ==
    /\ kind[j] = "url" /\ pc[j] = "clips"
    /\ Goto(j, "complete")
    /\ Finally(j, active_profilers)
    /\ UNCHANGED <<services, whisper_language, chunks, download, profiled>>
    /\ Frame(j, final_result[j] \cup {"generated_clips"})
    /\ JobUnchanged

\* process.py:606-621: the completion writes, with the performance data
\* added to the result
process_cloudinary_video_pipeline_complete(j) ==
    /\ kind[j] = "url" /\ pc[j] \in {"complete", "complete_fields"}
    /\ Complete(j, Result(final_result[j] \cup {"performance"}), "summary")
    /\ Finally(j, active_profilers)
    /\ UNCHANGED <<services, whisper_language, chunks, download, profiled>>
    /\ Frame(j, final_result[j])
    /\ JobUnchanged

\* process.py:623-632: print_summary and the log lines write to the
\* process's output and may raise
process_cloudinary_video_pipeline_summary(j) ==
    /\ kind[j] = "url" /\ pc[j] = "summary"
    /\ \E ok \in BOOLEAN :
        IF ok
        THEN Goto(j, "done")
        ELSE Raise(j, ExceptionText("'charmap' codec can't encode character"), "except")
    /\ Finally(j, active_profilers)
    /\ UNCHANGED <<services, whisper_language, chunks, download, profiled>>
    /\ Frame(j, final_result[j])
    /\ JobUnchanged

\* process.py:634-639: the handler of requests.RequestException
process_cloudinary_video_pipeline_except_request(j) ==
    /\ kind[j] = "url" /\ pc[j] \in {"except_request", "except_request_fields"}
    /\ IF pc[j] = "except_request"
       THEN WriteRecord(j, [status |-> "failed"], "except_request_fields")
       ELSE WriteRecord(j, DownloadFailedUpdate(raised[j].text), "done")
    /\ Finally(j, active_profilers)
    /\ UNCHANGED <<services, whisper_language, chunks, download, profiled>>
    /\ Frame(j, final_result[j])
    /\ JobUnchanged

\* process.py:649-663: the outer handler
process_cloudinary_video_pipeline_except(j) ==
    /\ kind[j] = "url" /\ pc[j] \in {"except", "except_fields"}
    /\ Except(j, CloudinaryFailedUpdate(IF Present(j) THEN Rec(j) ELSE NoJob,
                                        raised[j].text, profiled[j]))
    /\ Finally(j, active_profilers)
    /\ UNCHANGED <<services, whisper_language, chunks, download, profiled>>
    /\ Frame(j, final_result[j])
    /\ JobUnchanged

\* -------------------------------------- render_timeline_background (render)
\* the stages of render_timeline_video (video_renderer.py:264-317), each an
\* external tool run that blocks the worker
RenderStages == <<"materialize", "concat_list", "normalize", "concatenate",
                  "audio_check", "mix_or_finalize", "output_check">>

StageIndex(p) == CHOOSE k \in 1..Len(RenderStages) : RenderStages[k] = p

\* process.py:934-955
render_timeline_background_start(j) ==
    /\ kind[j] = "render" /\ pc[j] = "queued" /\ LoopIdle
    /\ \E ok \in BOOLEAN :
        /\ get_services_ok(ok)
        /\ IF ok
           THEN WriteRecord(j, [current_step |-> <<"stitching_clips">>, progress |-> 50], "materialize")
           ELSE Raise(j, ExceptionText("ffmpeg is required for video rendering"), "except")
    /\ UNCHANGED <<whisper_language, active_profilers, chunks, download, profiled>>
    /\ Frame(j, {})
    /\ JobUnchanged

\* process.py:956-958 around video_renderer.py:687-716 and 238-332: one
\* stage of the render returns or raises; after the last one the result is
\* returned
render_timeline_background_stage(j) ==
    /\ kind[j] = "render" /\ pc[j] \in {RenderStages[k] : k \in 1..Len(RenderStages)}
    /\ \E outcome \in {"ok", "raise", "empty_timeline"}, d \in Diagnostics :
        CASE outcome = "ok" ->
               IF StageIndex(pc[j]) < Len(RenderStages)
               THEN Goto(j, RenderStages[StageIndex(pc[j]) + 1])
               ELSE Goto(j, "complete")
          [] outcome = "raise" -> Raise(j, RenderErrorText(d), "except")
          [] outcome = "empty_timeline" ->
               /\ pc[j] = "materialize"
               /\ Raise(j, ExceptionText("No clips in timeline to render"), "except")
    /\ UNCHANGED <<services, whisper_language, active_profilers, chunks, download,
                   profiled>>
    /\ Frame(j, IF pc'[j] = "complete" THEN {"render_result"} ELSE {})
    /\ JobUnchanged

\* process.py:959-963
render_timeline_background_complete(j) ==
    /\ kind[j] = "render" /\ pc[j] \in {"complete", "complete_fields"}
    /\ Complete(j, Result(final_result[j]), "done")
    /\ UNCHANGED <<services, whisper_language, active_profilers, chunks, download,
                   profiled>>
    /\ Frame(j, final_result[j])
    /\ JobUnchanged

\* process.py:964-968
render_timeline_background_except(j) ==
    /\ kind[j] = "render" /\ pc[j] \in {"except", "except_fields"}
    /\ Except(j, FailedUpdate(raised[j].text))
    /\ UNCHANGED <<services, whisper_language, active_profilers, chunks, download,
                   profiled>>
    /\ Frame(j, final_result[j])
    /\ JobUnchanged

\* ------------------------------------------- one job, stage by stage
\* The steps below follow one job through its pipeline with the external
\* tool runs written out: the chunks of a longer video, the cuts of the
\* clip extraction, and every tool run of the render.

\* an external tool run and how it ended
Call(tool, result) == [tool |-> tool, result |-> result]

\* a tool run appended to the job's record of runs
Ran(j, tool, result) == [calls EXCEPT ![j] = Append(@, Call(tool, result))]

\* process.py:457-461 for a video of up to MaxTasks chunks
process_video_pipeline_transcribe(j) ==
    /\ kind[j] = "upload" /\ pc[j] = "chunking"
    /\ chunk_video(j, MaxTasks)
    /\ UNCHANGED <<services, whisper_language, active_profilers, download, profiled>>
    /\ Frame(j, {})
    /\ JobUnchanged

\* max_clips=3 at process.py:484
max_clips == 3

\* clip_generator.py:73-85 and 160-212: how the cuts of the selected
\* highlights end; a cut that fails or times out is logged and skipped
CutResults == UNION {[1..n -> {"ok", "failed", "timeout"}] : n \in 0..max_clips}

\* process.py:481-486 with the cuts of generate_clips_from_analysis
\* (clip_generator.py:270-388): whatever the cuts do, the call returns
process_video_pipeline_generate_clips(j) ==
    /\ kind[j] = "upload" /\ pc[j] = "clips"
    /\ \E results \in CutResults :
        calls' = [calls EXCEPT ![j] = @ \o [i \in 1..Len(results) |-> Call("cut", results[i])]]
    /\ Goto(j, "complete")
    /\ UNCHANGED <<services, whisper_language, active_profilers, chunks, download,
                   profiled>>
    /\ Frame(j, final_result[j] \cup {"generated_clips"})
    /\ ClientUnchanged
    /\ UNCHANGED <<request, processed_clips, mute_regions, mixer, generated_clips, rendered_videos, render, locals>>

\* ------------------------------------------------------ render requests
\* a duration as the request carries it (TimelineClip.duration: str,
\* process.py:127, 142, 150), character by character: a second count and a
\* minutes:seconds label
Durations == {<<"3">>, <<"1", ":", "0", "2">>}

\* process.py:122-153: the items a request may hold.  given: the file of
\* the clip (the file of the image) exists, the text is not empty
Items == [type : {"clip", "image", "text"}, duration : Durations, given : BOOLEAN]

\* RenderRequest.sfx_list: one event whose file exists or is missing
SfxLists == {<< >>, <<[path |-> "exists", delay_ms |-> "500"]>>,
             <<[path |-> "missing", delay_ms |-> "500"]>>}

\* process.py:155-160: the requests that validate.  bgm_filename: none
\* given, or the name of a file of uploaded_bgm that exists or is missing
Requests ==
    [timeline_clips : UNION {[1..n -> Items] : n \in 0..MaxItems},
     bgm_filename : {"none", "missing", "exists"},
     sfx_list : SfxLists]

\* process.py:122-160 and 805: what the body of a submission may hold in
\* place of an item.  type "none": the body gives no type tag; required:
\* every field the model of that tag declares without a default is there
\* with a value of its type
MalformedItems ==
    {[type |-> "video", duration |-> <<"3">>, given |-> TRUE, required |-> TRUE],
     [type |-> "none", duration |-> <<"3">>, given |-> TRUE, required |-> TRUE],
     [type |-> "clip", duration |-> <<"3">>, given |-> TRUE, required |-> FALSE],
     [type |-> "text", duration |-> <<"3">>, given |-> FALSE, required |-> FALSE]}
BodyItems ==
    {[type |-> i.type, duration |-> i.duration, given |-> i.given, required |-> TRUE] :
        i \in Items} \cup MalformedItems

\* the bodies a client can post to /render-timeline
Bodies ==
    [timeline_clips : UNION {[1..n -> BodyItems] : n \in 0..MaxItems},
     bgm_filename : {"none", "missing", "exists"},
     sfx_list : SfxLists]

\* process.py:153-156 and 805: RenderRequest(**request) validates every
\* item against the model its type tag selects (Field(discriminator='type'))
RenderRequestValid_any(body) == TRUE
RenderRequestValid(body) ==
    \A k \in 1..Len(body.timeline_clips) :
        /\ body.timeline_clips[k].type \in {"clip", "image", "text"}
        /\ body.timeline_clips[k].required

\* the validated request made from a body
RenderRequest(body) ==
    [timeline_clips |-> [k \in 1..Len(body.timeline_clips) |->
         [type |-> body.timeline_clips[k].type,
          duration |-> body.timeline_clips[k].duration,
          given |-> body.timeline_clips[k].given]],
     bgm_filename |-> body.bgm_filename,
     sfx_list |-> body.sfx_list]

\* process.py:796-831: the handler of POST /render-timeline
render_timeline_video_post(body) ==
    IF RenderRequestValid(body)
    THEN render_timeline_video_request(RenderRequest(body))
    ELSE render_timeline_video_rejected

\* ------------------------------------------------------------- strings
Digits == <<"0", "1", "2", "3", "4", "5", "6", "7", "8", "9">>

DigitValue(c) == (CHOOSE k \in 1..Len(Digits) : Digits[k] = c) - 1

\* int(s) and, for a string without '.', float(s) return a number exactly
\* when s is a non-empty string of digits; otherwise they raise ValueError
IntOk(s) == Len(s) > 0 /\ \A i \in 1..Len(s) : \E k \in 1..Len(Digits) : Digits[k] = s[i]

RECURSIVE IntValue(_)
IntValue(s) ==
    IF s = << >> THEN 0
    ELSE IntValue(SubSeq(s, 1, Len(s) - 1)) * 10 + DigitValue(s[Len(s)])

\* str(n) of a non-negative int
RECURSIVE Str(_)
Str(n) ==
    IF n < 10 THEN <<Digits[n + 1]>>
    ELSE Str(n \div 10) \o <<Digits[(n % 10) + 1]>>

\* s.split(':')
RECURSIVE Split(_)
Split(s) ==
    IF \A i \in 1..Len(s) : s[i] # ":" THEN <<s>>
    ELSE LET k == CHOOSE i \in 1..Len(s) :
                      s[i] = ":" /\ \A h \in 1..(i - 1) : s[h] # ":"
         IN <<SubSeq(s, 1, k - 1)>> \o Split(SubSeq(s, k + 1, Len(s)))

NoValue == [ok |-> FALSE, value |-> 0]
Value(n) == [ok |-> TRUE, value |-> n]

\* video_renderer.py:202-212 parse_duration of a str: ok is FALSE when it
\* raises ValueError
parse_duration(duration) ==
    LET parts == Split(duration)
    IN IF Len(parts) = 2
       THEN IF IntOk(parts[1]) /\ IntOk(parts[2])
            THEN Value(IntValue(parts[1]) * 60 + IntValue(parts[2]))
            ELSE NoValue
       ELSE IF IntOk(duration) THEN Value(IntValue(duration)) ELSE NoValue

\* video_renderer.py:147, 174: duration = int(item.get('duration', 3))
int_duration(duration) ==
    IF IntOk(duration) THEN Value(IntValue(duration)) ELSE NoValue

\* ----------------------------------------------------- processed clips
\* video_renderer.py:111-125: the dict made for a clip item.  It has the
\* keys of TimelineClip, and no key 'type'.  exists: the file the name
\* resolves to in generated_clips exists
ClipSegment(idx, item) ==
    [timelineId |-> idx, duration |-> item.duration, shows |-> "clip",
     exists |-> item.given]

\* video_renderer.py:127-168: the image, or black.jpg when its file is
\* missing (132-146), made into a video of int(duration) seconds and
\* copied to generated_clips; the dict again has no key 'type'
ImageSegment(idx, item) ==
    [timelineId |-> idx, duration |-> Str(int_duration(item.duration).value),
     shows |-> IF item.given THEN "image" ELSE "black.jpg", exists |-> TRUE]

\* video_renderer.py:169-195: the text, or 'Untitled' when it is empty
TextSegment(idx, item) ==
    [timelineId |-> idx, duration |-> Str(int_duration(item.duration).value),
     shows |-> IF item.given THEN "text" ELSE "Untitled", exists |-> TRUE]

\* video_renderer.py:272-274: orig_type = item['type'] if 'type' in item
orig_type_clip(item) == "clip"
orig_type(item) == IF "type" \in DOMAIN item THEN item.type ELSE "None"

\* video_renderer.py:267-279: the regions of the processed clips from the
\* k-th on, the earlier ones ending at current_time
RECURSIVE MuteRegions(_, _, _)
MuteRegions(clips, k, current_time) ==
    IF k > Len(clips) THEN << >>
    ELSE LET duration == parse_duration(clips[k].duration).value
         IN (IF orig_type(clips[k]) = "clip"
             THEN <<[start |-> current_time, end |-> current_time + duration]>>
             ELSE << >>)
            \o MuteRegions(clips, k + 1, current_time + duration)

\* video_renderer.py:355-356: some clip's file is missing, FileNotFoundError
ClipFileNotFound_never(clips) == FALSE
ClipFileNotFound(clips) == \E k \in 1..Len(clips) : ~clips[k].exists

\* -------------------------------------------------- the tools of a render
\* the runs given a timeout: concatenation (video_renderer.py:470), mix
\* (603) and finalization (635); every other subprocess.run of the
\* renderer has none (31, 54, 85, 299, 378, 386, 417, 488, 673)
TimedTools == {"concatenate", "mix", "finalize"}

\* the runs whose failure raises; the failure of the others is swallowed
\* (video_renderer.py:89-90, 387-390, 493-495, 674-678)
FatalTools == {"synthesize_image", "synthesize_text", "probe_target", "probe_props",
               "normalize", "concatenate", "silent_audio", "mix", "finalize"}

\* video_renderer.py:376-381 get_video_props: ffprobe is run with check=True
\* and ['streams'][0] of its output is read, so the probe also fails when
\* ffprobe exits with 0 and lists no video stream (no_stream)
PropsProbes == {"probe_target", "probe_props"}

\* how a run can end: it exits with 0, exits with an error, or does not
\* return by itself, in which case a timeout ends it if it has one
ToolResults(tool) ==
    {"ok", "failed"} \cup (IF tool \in TimedTools THEN {"timeout"} ELSE {"never_returns"})
        \cup (IF tool \in PropsProbes THEN {"no_stream"} ELSE {})

\* the files normalized so far
Fixed(j) == Cardinality({k \in 1..Len(calls[j]) : calls[j][k] = Call("normalize", "ok")})

\* the paths of the concat list, in timeline order (video_renderer.py:374)
file_paths == <<"file_paths[0]", "file_paths[1]">>

\* str(e) of what a failed or timed out run raises inside
\* render_timeline_video.  The re-encode of in_path raises "Failed to
\* process {in_path}: {stderr}" (video_renderer.py:418-420); a probe that
\* exits with an error raises CalledProcessError, whose text quotes the
\* command and with it the path (378); a probe that lists no video stream
\* raises IndexError (379)
ToolErrorText(tool, result, diagnostic, in_path) ==
    CASE result = "timeout" -> <<tool, " timed out">>
      [] result = "no_stream" -> <<"list index out of range">>
      [] tool \in {"synthesize_image", "synthesize_text"} -> diagnostic
      [] tool = "normalize" -> <<"Failed to process ", in_path, ": ">> \o diagnostic
      [] tool \in PropsProbes ->
            <<"Command '['ffprobe', ..., '", in_path, "']' returned non-zero exit status 1.">>
      [] OTHER -> <<tool, " failed: ">> \o diagnostic

\* video_renderer.py:392 and 398: the file probed or re-encoded at the
\* worker's position, file_paths[0] for the target and in_path in the loop
in_path(j) == file_paths[IF pc[j] = "normalize" THEN 1 ELSE Fixed(j) + 1]

\* the run of `tool` has ended with `result`: its failure raises if it is
\* fatal, a run that never returns blocks the worker (and the event loop,
\* subprocess.run being a blocking call) for good, otherwise on to `next`
Outcome_retry(j, tool, result, next) ==
    /\ calls' = Ran(j, tool, result)
    /\ IF result = "ok" THEN Goto(j, next) ELSE Goto(j, pc[j])
Outcome(j, tool, result, next) ==
    /\ calls' = Ran(j, tool, result)
    /\ CASE result = "ok" -> Goto(j, next)
         [] result = "never_returns" -> Goto(j, "blocked")
         [] result \in {"timeout", "no_stream"} ->
              Raise(j, RenderErrorText(ToolErrorText(tool, result, << >>, in_path(j))),
                    "except")
         [] result = "failed" ->
              IF tool \in FatalTools
              THEN \E d \in Diagnostics :
                      Raise(j, RenderErrorText(ToolErrorText(tool, result, d, in_path(j))),
                            "except")
              ELSE Goto(j, next)

\* what a step of the render leaves alone, and its worker's frame
RenderFrame(j) ==
    /\ UNCHANGED <<services, whisper_language, active_profilers, chunks, download,
                   profiled, request>>
    /\ Frame(j, IF pc'[j] = "complete" THEN {"render_result"} ELSE {})
    /\ ClientUnchanged

\* the clip items whose file exists
ExistingClips(timeline) ==
    {k \in 1..Len(timeline) : timeline[k].type = "clip" /\ timeline[k].given}

\* video_renderer.py:698-703 and 64-91: an empty timeline raises; else the
\* resolution is probed on the clips whose file exists, up to the first
\* probe that succeeds
preprocess_timeline_items_resolution(j) ==
    /\ kind[j] = "render" /\ pc[j] = "materialize"
    /\ LET timeline == request[j].timeline_clips
           n == Cardinality(ExistingClips(timeline))
       IN IF timeline = << >>
          THEN /\ Raise(j, ExceptionText("No clips in timeline to render"), "except")
               /\ UNCHANGED calls
          ELSE \E m \in 0..n, last \in {"ok", "never_returns", "none"} :
                  /\ (last = "none") = (m = n)
                  /\ calls' = [calls EXCEPT ![j] =
                        @ \o [i \in 1..m |-> Call("probe_resolution", "failed")]
                          \o (IF m < n THEN <<Call("probe_resolution", last)>> ELSE << >>)]
                  /\ Goto(j, IF last = "never_returns" THEN "blocked" ELSE "items")
    /\ UNCHANGED <<processed_clips, mute_regions, mixer, generated_clips, rendered_videos, render, locals>>
    /\ RenderFrame(j)

\* video_renderer.py:150-152, 177-179: shutil.copy2 of the synthesized file
\* to generated_clips/<name>, replacing a file of that name
copy2(store, name, j) == [store EXCEPT ![name] = j]

\* whether the item just processed was the last one
LastItem(j) == Len(processed_clips[j]) + 1 = Len(request[j].timeline_clips)

\* video_renderer.py:92-198: the next item of the timeline.  A clip item
\* is copied field by field; an image or a text item has its duration
\* converted by int() and is made into a video by the synthesizer
preprocess_timeline_items(j) ==
    /\ kind[j] = "render" /\ pc[j] = "items"
    /\ LET idx == Len(processed_clips[j]) + 1
           item == request[j].timeline_clips[idx]
           next == IF LastItem(j) THEN "regions" ELSE "items"
           tool == IF item.type = "image" THEN "synthesize_image" ELSE "synthesize_text"
       IN IF item.type = "clip"
          THEN /\ processed_clips' = [processed_clips EXCEPT ![j] = Append(@, ClipSegment(idx, item))]
               /\ Goto(j, next)
               /\ UNCHANGED <<calls, generated_clips>>
          ELSE IF ~int_duration(item.duration).ok
          THEN /\ Raise(j, RenderErrorText(ExceptionText("invalid literal for int() with base 10")),
                        "except")
               /\ UNCHANGED <<processed_clips, calls, generated_clips>>
          ELSE \E result \in ToolResults(tool) :
                  /\ Outcome(j, tool, result, next)
                  /\ processed_clips' =
                        IF result = "ok"
                        THEN [processed_clips EXCEPT ![j] =
                                Append(@, IF item.type = "image" THEN ImageSegment(idx, item)
                                          ELSE TextSegment(idx, item))]
                        ELSE processed_clips
                  /\ generated_clips' =
                        IF result = "ok"
                        THEN copy2(generated_clips, SegmentName(item.type, idx - 1), j)
                        ELSE generated_clips
    /\ UNCHANGED <<mute_regions, mixer, rendered_videos, render, locals>>
    /\ RenderFrame(j)

\* video_renderer.py:266-281: the mute regions; parse_duration raises on a
\* duration it cannot convert
render_timeline_video_regions(j) ==
    /\ kind[j] = "render" /\ pc[j] = "regions"
    /\ IF \E k \in 1..Len(processed_clips[j]) : ~parse_duration(processed_clips[j][k].duration).ok
       THEN /\ Raise(j, RenderErrorText(ExceptionText("could not convert string to float")),
                     "except")
            /\ UNCHANGED mute_regions
       ELSE /\ mute_regions' = [mute_regions EXCEPT ![j] = MuteRegions(processed_clips[j], 1, 0)]
            /\ Goto(j, "concat_list")
    /\ UNCHANGED <<processed_clips, calls, mixer, generated_clips, rendered_videos, render, locals>>
    /\ RenderFrame(j)

\* video_renderer.py:334-364 _prepare_concat_list
prepare_concat_list(j) ==
    /\ kind[j] = "render" /\ pc[j] = "concat_list"
    /\ IF ClipFileNotFound(processed_clips[j])
       THEN Raise(j, RenderErrorText(ExceptionText("Clip file not found")), "except")
       ELSE Goto(j, "normalize")
    /\ UNCHANGED <<processed_clips, mute_regions, calls, mixer, generated_clips, rendered_videos, render, locals>>
    /\ RenderFrame(j)

\* a step of the render that is one tool run
ToolStep(j, tool, next) ==
    /\ \E result \in ToolResults(tool) : Outcome(j, tool, result, next)
    /\ UNCHANGED <<processed_clips, mute_regions, mixer, generated_clips, rendered_videos, render, locals>>
    /\ RenderFrame(j)

\* video_renderer.py:392: the properties of the first file are the target
concatenate_clips_target(j) ==
    /\ kind[j] = "render" /\ pc[j] = "normalize"
    /\ ToolStep(j, "probe_target", "fix_audio")

\* video_renderer.py:399: has_audio(in_path)
concatenate_clips_has_audio(j) ==
    /\ kind[j] = "render" /\ pc[j] = "fix_audio"
    /\ ToolStep(j, "probe_audio", "fix_props")

\* video_renderer.py:400: get_video_props(in_path)
concatenate_clips_props(j) ==
    /\ kind[j] = "render" /\ pc[j] = "fix_props"
    /\ ToolStep(j, "probe_props", "fix")

\* video_renderer.py:398: the loop goes on while a file is left
AllFixed_after_first(j) == TRUE
AllFixed(j) == Fixed(j) + 1 = Len(processed_clips[j])

\* video_renderer.py:402-421: the file is re-encoded to the target
concatenate_clips_fix(j) ==
    /\ kind[j] = "render" /\ pc[j] = "fix"
    /\ ToolStep(j, "normalize", IF AllFixed(j) THEN "silent_inputs" ELSE "fix_audio")

\* video_renderer.py:435-456: when some files have audio and others do
\* not (silent: a clip with audio next to another file), the duration of
\* a file without audio is probed for its silent input
concatenate_clips_silent_inputs(j) ==
    /\ kind[j] = "render" /\ pc[j] = "silent_inputs"
    /\ \E silent \in BOOLEAN :
        /\ silent => /\ Len(processed_clips[j]) > 1
                      /\ \E k \in 1..Len(processed_clips[j]) :
                            processed_clips[j][k].shows = "clip"
        /\ IF silent
           THEN \E result \in ToolResults("probe_silent_input") :
                   Outcome(j, "probe_silent_input", result, "concatenate")
           ELSE Goto(j, "concatenate") /\ UNCHANGED calls
    /\ UNCHANGED <<processed_clips, mute_regions, mixer, generated_clips, rendered_videos, render, locals>>
    /\ RenderFrame(j)

\* video_renderer.py:458-477: the concatenation, with a timeout of 300 s
concatenate_clips(j) ==
    /\ kind[j] = "render" /\ pc[j] = "concatenate"
    /\ ToolStep(j, "concatenate", "audio_check")

\* video_renderer.py:286 and 664-678 _has_audio_stream: a failed probe
\* counts as no audio stream
has_audio_stream(j) ==
    /\ kind[j] = "render" /\ pc[j] = "audio_check"
    /\ \E result \in ToolResults("probe_audio_stream"), audio \in BOOLEAN :
        /\ (result # "ok") => ~audio
        /\ Outcome(j, "probe_audio_stream", result,
                   IF audio THEN "mix_or_finalize" ELSE "silent_audio")
    /\ UNCHANGED <<processed_clips, mute_regions, mixer, generated_clips, rendered_videos, render, locals>>
    /\ RenderFrame(j)

\* video_renderer.py:287-303: a silent audio track is added
add_silent_audio(j) ==
    /\ kind[j] = "render" /\ pc[j] = "silent_audio"
    /\ ToolStep(j, "silent_audio", "mix_or_finalize")

\* video_renderer.py:552-617 _add_bgm_and_sfx_with_mute: the inputs of the
\* command are the video and the looped music, whose volume the ducking
\* expression lowers inside the mute regions; sfx_list is not read
MixInputs(regions, sfx_list) ==
    [ran |-> TRUE, bgm |-> TRUE, mute_regions |-> regions, sfx |-> << >>]

\* video_renderer.py:568-583: the volume of the music at second t under
\* the ducking expression; without mute regions there is no volume filter
BgmVolume(regions, t) ==
    IF \E k \in 1..Len(regions) : regions[k].start <= t /\ t <= regions[k].end
    THEN "0.2" ELSE "1.0"

\* video_renderer.py:259-261, 584-617, 619-644: what a run of ffmpeg -y
\* leaves at output_path in rendered_videos/.  A run that exits with 0 has
\* written the video, or, as the check after it provides for, an empty
\* file or none; a run that fails or is killed by its timeout leaves no
\* file or the part written so far.  Nothing removes the file afterwards
OutputFiles(result) ==
    IF result = "ok" THEN {"video", "empty", "absent"} ELSE {"absent", "partial"}

\* process.py:943-948 and video_renderer.py:306: the music is mixed when a
\* file name was given and the file exists
HasBgm(j) == request[j].bgm_filename = "exists"

\* video_renderer.py:305-309: the mix, with a timeout of 300 s
add_bgm_and_sfx_with_mute(j) ==
    /\ kind[j] = "render" /\ pc[j] = "mix_or_finalize"
    /\ HasBgm(j)
    /\ \E result \in ToolResults("mix") :
          /\ Outcome(j, "mix", result, "output_check")
          /\ \E file \in OutputFiles(result) :
                rendered_videos' = [rendered_videos EXCEPT ![j] = file]
    /\ mixer' = [mixer EXCEPT ![j] = MixInputs(mute_regions[j], request[j].sfx_list)]
    /\ UNCHANGED <<processed_clips, mute_regions, generated_clips, render, locals>>
    /\ RenderFrame(j)

\* video_renderer.py:310-311 and 619-644: no music, the video is copied
\* to the output, with a timeout of 180 s
finalize_video(j) ==
    /\ kind[j] = "render" /\ pc[j] = "mix_or_finalize"
    /\ ~HasBgm(j)
    /\ \E result \in ToolResults("finalize") :
          /\ Outcome(j, "finalize", result, "output_check")
          /\ \E file \in OutputFiles(result) :
                rendered_videos' = [rendered_videos EXCEPT ![j] = file]
    /\ UNCHANGED <<processed_clips, mute_regions, mixer, generated_clips, render, locals>>
    /\ RenderFrame(j)

\* video_renderer.py:312-316: the output file exists and is not empty
output_check(j) ==
    /\ kind[j] = "render" /\ pc[j] = "output_check"
    /\ LET file == rendered_videos[j]
           result == IF file = "video" THEN "ok" ELSE "failed"
       IN /\ calls' = Ran(j, "output_check", result)
          /\ CASE file = "absent" ->
                    Raise(j, RenderErrorText(ExceptionText("Output video file was not created")),
                          "except")
               [] file = "empty" ->
                    Raise(j, RenderErrorText(ExceptionText("Output video file is empty")),
                          "except")
               [] OTHER -> Goto(j, "output_duration")
    /\ UNCHANGED <<processed_clips, mute_regions, mixer, generated_clips, rendered_videos, render, locals>>
    /\ RenderFrame(j)

\* video_renderer.py:317-329: the duration of the output is probed and the
\* result is returned
get_video_duration(j) ==
    /\ kind[j] = "render" /\ pc[j] = "output_duration"
    /\ ToolStep(j, "probe_duration", "complete")

\* ------------------------------------------------------------------- Next
Next ==
    \/ \E lang \in RequestLanguages : upload_and_analyze_video(lang)
    \/ \E j \in JobIds : upload_and_analyze_video_return(j)
    \/ upload_and_analyze_video_rejected
    \/ \E lang \in RequestLanguages : process_cloudinary_video(lang)
    \/ process_cloudinary_video_rejected
    \/ render_timeline_video
    \/ render_timeline_video_rejected
    \/ send_response
    \/ \E reg \in {"processing", "render"}, j \in JobIds : get_status(reg, j)
    \/ \E reg \in {"processing", "render"}, j \in JobIds : get_result(reg, j)
    \/ \E j \in JobIds : delete_job(j)
    \/ \E j \in JobIds : delete_render_job(j)
    \/ \E j \in JobIds : process_video_pipeline_start(j)
    \/ \E j \in JobIds : process_video_pipeline_save(j)
    \/ \E j \in JobIds : process_video_pipeline_chunk(j)
    \/ \E j \in JobIds, i \in 1..MaxChunks : transcribe_chunk_start(j, i)
    \/ \E j \in JobIds, i \in 1..MaxChunks : transcribe_chunk_finish(j, i)
    \/ \E j \in JobIds : process_video_pipeline_transcribed(j)
    \/ \E j \in JobIds : process_video_pipeline_vibe(j)
    \/ \E j \in JobIds : process_video_pipeline_clips(j)
    \/ \E j \in JobIds : process_video_pipeline_complete(j)
    \/ \E j \in JobIds : process_video_pipeline_except(j)
    \/ \E j \in JobIds : process_cloudinary_video_pipeline_start(j)
    \/ \E j \in JobIds : process_cloudinary_video_pipeline_request(j)
    \/ \E j \in JobIds : process_cloudinary_video_pipeline_download(j)
    \/ \E j \in JobIds : process_cloudinary_video_pipeline_chunk(j)
    \/ \E j \in JobIds : process_cloudinary_video_pipeline_transcribed(j)
    \/ \E j \in JobIds : process_cloudinary_video_pipeline_vibe(j)
    \/ \E j \in JobIds : process_cloudinary_video_pipeline_clips(j)
    \/ \E j \in JobIds : process_cloudinary_video_pipeline_complete(j)
    \/ \E j \in JobIds : process_cloudinary_video_pipeline_summary(j)
    \/ \E j \in JobIds : process_cloudinary_video_pipeline_except_request(j)
    \/ \E j \in JobIds : process_cloudinary_video_pipeline_except(j)
    \/ \E j \in JobIds : render_timeline_background_start(j)
    \/ \E j \in JobIds : render_timeline_background_stage(j)
    \/ \E j \in JobIds : render_timeline_background_complete(j)
    \/ \E j \in JobIds : render_timeline_background_except(j)

Spec == Init /\ [][Next]_vars

\* ----------------------------------------------------------- PipelineSpec
\* one job, an uploaded-file analysis or a render, from its submission to
\* its end
PipelineNext ==
    \/ \E lang \in RequestLanguages : next_id = 1 /\ upload_and_analyze_video(lang)
    \/ \E j \in JobIds : upload_and_analyze_video_return(j)
    \/ send_response
    \/ \E j \in JobIds : process_video_pipeline_start(j)
    \/ \E j \in JobIds : process_video_pipeline_save(j)
    \/ \E j \in JobIds : process_video_pipeline_transcribe(j)
    \/ \E j \in JobIds, i \in 1..MaxTasks : transcribe_chunk_start(j, i)
    \/ \E j \in JobIds, i \in 1..MaxTasks : transcribe_chunk_finish(j, i)
    \/ \E j \in JobIds : process_video_pipeline_transcribed(j)
    \/ \E j \in JobIds : process_video_pipeline_vibe(j)
    \/ \E j \in JobIds : process_video_pipeline_generate_clips(j)
    \/ \E j \in JobIds : process_video_pipeline_complete(j)
    \/ \E j \in JobIds : process_video_pipeline_except(j)
    \/ \E body \in Bodies : next_id = 1 /\ render_timeline_video_post(body)
    \/ \E j \in JobIds : render_timeline_background_start(j)
    \/ \E j \in JobIds : preprocess_timeline_items_resolution(j)
    \/ \E j \in JobIds : preprocess_timeline_items(j)
    \/ \E j \in JobIds : render_timeline_video_regions(j)
    \/ \E j \in JobIds : prepare_concat_list(j)
    \/ \E j \in JobIds : concatenate_clips_target(j)
    \/ \E j \in JobIds : concatenate_clips_has_audio(j)
    \/ \E j \in JobIds : concatenate_clips_props(j)
    \/ \E j \in JobIds : concatenate_clips_fix(j)
    \/ \E j \in JobIds : concatenate_clips_silent_inputs(j)
    \/ \E j \in JobIds : concatenate_clips(j)
    \/ \E j \in JobIds : has_audio_stream(j)
    \/ \E j \in JobIds : add_silent_audio(j)
    \/ \E j \in JobIds : add_bgm_and_sfx_with_mute(j)
    \/ \E j \in JobIds : finalize_video(j)
    \/ \E j \in JobIds : output_check(j)
    \/ \E j \in JobIds : get_video_duration(j)
    \/ \E j \in JobIds : render_timeline_background_complete(j)
    \/ \E j \in JobIds : render_timeline_background_except(j)

PipelineSpec == Init /\ [][PipelineNext]_vars

\* the event loop runs a task that is ready, and a tool run that can end
\* does end
PipelineFairSpec == PipelineSpec /\ WF_vars(PipelineNext)

\* -------------------------------------------------------------- StoreSpec
\* two render jobs and the files they write into generated_clips/

\* requests of one synthesized item, an image or a text
StoreRequests ==
    [timeline_clips : [1..1 -> {i \in Items : i.type # "clip" /\ i.given
                                              /\ i.duration = <<"3">>}],
     bgm_filename : {"none"},
     sfx_list : {<< >>}]

\* process.py:925-968 and video_renderer.py:238-332: from its first
\* statement to its last the render worker awaits only coroutines that
\* call subprocess.run and never suspend, so the event loop runs the
\* worker of another job only before it starts or after it has ended
Alone(j) == \A i \in JobIds \ {j} : pc[i] \in {"none", "queued", "done"}
\* so does the handler of a submission
NoneRunning == \A i \in JobIds : pc[i] \in {"none", "queued", "done"}

StoreNext ==
    \/ \E req \in StoreRequests : NoneRunning /\ render_timeline_video_request(req)
    \/ send_response
    \/ \E j \in JobIds : Alone(j) /\ render_timeline_background_start(j)
    \/ \E j \in JobIds : Alone(j) /\ preprocess_timeline_items_resolution(j)
    \/ \E j \in JobIds : Alone(j) /\ preprocess_timeline_items(j)
    \/ \E j \in JobIds : Alone(j) /\ render_timeline_video_regions(j)
    \/ \E j \in JobIds : Alone(j) /\ prepare_concat_list(j)
    \/ \E j \in JobIds : Alone(j) /\ concatenate_clips_target(j)
    \/ \E j \in JobIds : Alone(j) /\ concatenate_clips_has_audio(j)
    \/ \E j \in JobIds : Alone(j) /\ concatenate_clips_props(j)
    \/ \E j \in JobIds : Alone(j) /\ concatenate_clips_fix(j)
    \/ \E j \in JobIds : Alone(j) /\ concatenate_clips_silent_inputs(j)
    \/ \E j \in JobIds : Alone(j) /\ concatenate_clips(j)
    \/ \E j \in JobIds : Alone(j) /\ has_audio_stream(j)
    \/ \E j \in JobIds : Alone(j) /\ add_silent_audio(j)
    \/ \E j \in JobIds : Alone(j) /\ finalize_video(j)
    \/ \E j \in JobIds : Alone(j) /\ output_check(j)
    \/ \E j \in JobIds : Alone(j) /\ get_video_duration(j)
    \/ \E j \in JobIds : Alone(j) /\ render_timeline_background_complete(j)
    \/ \E j \in JobIds : Alone(j) /\ render_timeline_background_except(j)

StoreSpec == Init /\ [][StoreNext]_vars

\* ----------------------------------------------------------- RendererSpec
\* One call of the renderer followed file by file: the resolution the
\* image and text items are synthesized at, the properties every file is
\* normalized to, the inputs and the audio references of the concatenation
\* command, and the audio stream of the file handed on.  Every run
\* succeeds unless said otherwise; every clip file exists.

\* width x height, r_frame_rate and pix_fmt of a clip file, as ffprobe
\* reports them (video_renderer.py:376-381)
ClipProps ==
    {[resolution |-> "1920x1080", fps |-> 30, pix_fmt |-> "yuv420p"],
     [resolution |-> "640x360", fps |-> 24, pix_fmt |-> "yuv422p"]}

\* the items the renderer is called with, as dicts.  typed: the dict has
\* the key 'type' (a request of the API always has, process.py:938-940; a
\* caller such as client-2/server/test_video_rendering.py:50-83 passes
\* clips without); probe: the resolution probe of the clip file succeeds;
\* audio: the clip file has an audio stream.  An item of type "None" has
\* no key 'type' and no image name, text or clip_url to infer one from
RenderItems ==
    [type : {"clip"}, typed : BOOLEAN, probe : BOOLEAN, props : ClipProps, audio : BOOLEAN]
    \cup [type : {"image", "text"}, typed : BOOLEAN]
    \cup [type : {"None"}, typed : {FALSE}]

RenderTimelines == UNION {[1..n -> RenderItems] : n \in 1..MaxSegments}

\* video_renderer.py:94-108: the type of an item, inferred from its name,
\* url, text or clip_url when the key is missing, None when it cannot
item_type(item) == item.type

\* video_renderer.py:64-91: the resolution of the first item with
\* item.get('type') == 'clip' whose probe succeeds, else the default
RECURSIVE target_resolution(_, _)
target_resolution(timeline_clips, k) ==
    IF k > Len(timeline_clips) THEN "1280x720"
    ELSE LET item == timeline_clips[k]
         IN IF item.typed /\ item.type = "clip" /\ item.probe
            THEN item.props.resolution
            ELSE target_resolution(timeline_clips, k + 1)

\* video_renderer.py:18-29 and 36-50: the file synthesized for an image or
\* a text item: scale or size = resolution, -r 25, -pix_fmt yuv420p, no
\* audio; a clip item is its own file (109-125)
generate_video(resolution) ==
    [resolution |-> resolution, fps |-> 25, pix_fmt |-> "yuv420p", audio |-> FALSE]
processed_file(item, resolution) ==
    IF item_type(item) = "clip"
    THEN [resolution |-> item.props.resolution, fps |-> item.props.fps,
          pix_fmt |-> item.props.pix_fmt, audio |-> item.audio]
    ELSE generate_video(resolution)

\* video_renderer.py:92-198: the loop over enumerate(timeline_clips) from
\* idx on: a clip, an image and a text item are appended, with idx, the
\* position they came from; an item of any other type is skipped (196-197)
RECURSIVE preprocess_items(_, _, _)
preprocess_items(timeline_clips, idx, resolution) ==
    IF idx >= Len(timeline_clips) THEN << >>
    ELSE LET item == timeline_clips[idx + 1]
             rest == preprocess_items(timeline_clips, idx + 1, resolution)
         IN IF item_type(item) \in {"clip", "image", "text"}
            THEN <<[idx |-> idx] @@ processed_file(item, resolution)>> \o rest
            ELSE rest

\* video_renderer.py:376-381 get_video_props
get_video_props(file) ==
    [resolution |-> file.resolution, fps |-> file.fps, pix_fmt |-> file.pix_fmt]

\* video_renderer.py:402-421: the file re-encoded to the target, with its
\* audio if has_audio found one and without (-an) otherwise
fixed_file(target, has_audio) ==
    [resolution |-> target.resolution, fps |-> target.fps, pix_fmt |-> target.pix_fmt,
     audio |-> has_audio]

\* video_renderer.py:423-456: the inputs of the command and the audio
\* references of the filter graph, built segment by segment from i on
\* (i, audio_input_idx and the references count from 0 as in the code)
RECURSIVE final_audio_chain(_, _, _, _, _)
final_audio_chain(audio_flags, i, audio_input_idx, input_args, chain) ==
    IF i >= Len(audio_flags)
    THEN [input_args |-> input_args, final_audio_chain |-> chain]
    ELSE IF audio_flags[i + 1]
    THEN final_audio_chain(audio_flags, i + 1, audio_input_idx + 1, input_args,
                           Append(chain, audio_input_idx))
    ELSE final_audio_chain(audio_flags, i + 1, audio_input_idx,
                           Append(input_args, [input |-> "anullsrc", segment |-> i,
                                               audio |-> TRUE]),
                           Append(chain, Len(audio_flags) + i - audio_input_idx))

\* video_renderer.py:423-433: the fixed files are the first inputs
file_inputs(fixed_files) ==
    [k \in 1..Len(fixed_files) |->
        [input |-> "file", segment |-> k - 1, audio |-> fixed_files[k].audio]]

\* ffmpeg refuses a graph one of whose references [n:a:0] matches no stream
GraphRuns(input_args, chain) ==
    \A k \in 1..Len(chain) :
        /\ chain[k] < Len(input_args)
        /\ input_args[chain[k] + 1].audio

\* the locals at the start of a call with the timeline
RenderOf(timeline_clips) ==
    [step |-> "resolution", timeline_clips |-> timeline_clips,
     target_resolution |-> "", file_paths |-> << >>, target |-> << >>,
     audio_flags |-> << >>, fixed_files |-> << >>, input_args |-> << >>,
     final_audio_chain |-> << >>, num_audio_inputs |-> 0,
     concatenated |-> << >>, probe |-> "none", silent_audio |-> 0, handed |-> << >>,
     error |-> ""]

\* video_renderer.py:64-91
detect_target_resolution ==
    /\ render.step = "resolution"
    /\ render' = [render EXCEPT !.step = "items",
                     !.target_resolution = target_resolution(render.timeline_clips, 1)]
    /\ UNCHANGED <<job_vars, locals>>

\* video_renderer.py:92-198 and 334-364: every processed item becomes a
\* file of the concat list, in timeline order
materialize_items ==
    /\ render.step = "items"
    /\ render' = [render EXCEPT !.step = "target",
                     !.file_paths = preprocess_items(render.timeline_clips, 0,
                                                     render.target_resolution)]
    /\ UNCHANGED <<job_vars, locals>>

\* video_renderer.py:392: the target is read from file_paths[0]; the
\* subscript raises IndexError when the list is empty
concatenate_clips_get_target ==
    /\ render.step = "target"
    /\ IF render.file_paths = << >>
       THEN render' = [render EXCEPT !.step = "failed",
                          !.error = "list index out of range"]
       ELSE render' = [render EXCEPT !.step = "fix",
                          !.target = <<get_video_props(render.file_paths[1])>>]
    /\ UNCHANGED <<job_vars, locals>>

\* video_renderer.py:395-421: audio_flags and fixed_files
concatenate_clips_fix_files ==
    /\ render.step = "fix"
    /\ LET flags == [k \in 1..Len(render.file_paths) |-> render.file_paths[k].audio]
       IN render' = [render EXCEPT !.step = "graph",
                        !.audio_flags = flags,
                        !.fixed_files = [k \in 1..Len(flags) |->
                                            fixed_file(render.target[1], flags[k])]]
    /\ UNCHANGED <<job_vars, locals>>

\* video_renderer.py:423-456: the inputs and the filter graph
concatenate_clips_filter_complex ==
    /\ render.step = "graph"
    /\ LET inputs == file_inputs(render.fixed_files)
           n == Cardinality({k \in 1..Len(render.audio_flags) : render.audio_flags[k]})
           graph == IF n = 0
                    THEN [input_args |-> inputs, final_audio_chain |-> << >>]
                    ELSE final_audio_chain(render.audio_flags, 0, 0, inputs, << >>)
       IN render' = [render EXCEPT !.step = "concatenate",
                        !.num_audio_inputs = n,
                        !.input_args = graph.input_args,
                        !.final_audio_chain = graph.final_audio_chain]
    /\ UNCHANGED <<job_vars, locals>>

\* video_renderer.py:458-477: the command runs; it fails on a graph ffmpeg
\* refuses, and its output has an audio stream if the graph has an audio
\* branch
concatenate_clips_run ==
    /\ render.step = "concatenate"
    /\ IF GraphRuns(render.input_args, render.final_audio_chain)
       THEN render' = [render EXCEPT !.step = "audio_check",
                          !.concatenated = <<[audio |-> render.num_audio_inputs > 0]>>]
       ELSE render' = [render EXCEPT !.step = "failed",
                          !.error = "Video concatenation failed"]
    /\ UNCHANGED <<job_vars, locals>>

\* video_renderer.py:664-678 _has_audio_stream: the streams ffprobe lists,
\* none if its output cannot be read
has_audio_stream_info_always(audio, probe) == TRUE
has_audio_stream_info(audio, probe) == probe = "ok" /\ audio

\* video_renderer.py:285-286: the check of the concatenated file
render_timeline_video_audio_check ==
    /\ render.step = "audio_check"
    /\ \E probe \in {"ok", "failed"} :
          render' = [render EXCEPT
                        !.probe = probe,
                        !.step = IF has_audio_stream_info(render.concatenated[1].audio, probe)
                                 THEN "handed" ELSE "silent_audio",
                        !.handed = IF has_audio_stream_info(render.concatenated[1].audio, probe)
                                   THEN render.concatenated ELSE << >>]
    /\ UNCHANGED <<job_vars, locals>>

\* video_renderer.py:287-303: a silent track is added with anullsrc
render_timeline_video_silent_audio ==
    /\ render.step = "silent_audio"
    /\ render' = [render EXCEPT !.step = "handed",
                     !.silent_audio = @ + 1,
                     !.handed = <<[audio |-> TRUE]>>]
    /\ UNCHANGED <<job_vars, locals>>

RendererNext ==
    \/ detect_target_resolution
    \/ materialize_items
    \/ concatenate_clips_get_target
    \/ concatenate_clips_fix_files
    \/ concatenate_clips_filter_complex
    \/ concatenate_clips_run
    \/ render_timeline_video_audio_check
    \/ render_timeline_video_silent_audio

RendererInit ==
    JobsInit /\ render \in {RenderOf(t) : t \in RenderTimelines} /\ locals = NoLocals

RendererSpec == RendererInit /\ [][RendererNext]_vars

\* ----------------------------------------------------------- ServicesSpec
\* One call of a function of the services followed through its loop: the
\* Gemini call with its retries, the clip extraction of a pipeline result
\* with its fallback selection, the adaptive chunking of a video, and the
\* concurrent transcription of its chunks.

\* llm_service.py:428
max_retries == 5

\* what generate_content raises, as str(e)
GeminiErrors == {<<"429", " Resource has been exhausted">>, <<"500", " Internal error">>}

\* llm_service.py:436: "429" in str(e) and attempt < max_retries - 1
should_retry_any_error(e, attempt) == attempt < max_retries - 1
should_retry(e, attempt) ==
    (\E k \in 1..Len(e) : e[k] = "429") /\ attempt < max_retries - 1

\* the locals at the start of _call_gemini
CallGemini ==
    [fn |-> "_call_gemini", attempt |-> 0, attempts |-> << >>,
     returned |-> << >>, raised |-> << >>]

\* llm_service.py:431-442: one pass of the loop over range(max_retries): the
\* response text is returned; an error is retried after a sleep or raised;
\* a loop that ran out would return None
call_gemini_attempt ==
    /\ locals.fn = "_call_gemini"
    /\ locals.returned = << >> /\ locals.raised = << >>
    /\ IF locals.attempt >= max_retries
       THEN locals' = [locals EXCEPT !.returned = <<"None">>]
       ELSE \E outcome \in {<<"response.text">>} \cup GeminiErrors :
               locals' =
                   IF outcome = <<"response.text">>
                   THEN [locals EXCEPT !.attempts = Append(@, outcome),
                                       !.returned = outcome]
                   ELSE IF should_retry(outcome, locals.attempt)
                   THEN [locals EXCEPT !.attempts = Append(@, outcome),
                                       !.attempt = @ + 1]
                   ELSE [locals EXCEPT !.attempts = Append(@, outcome),
                                       !.raised = <<outcome>>]
    /\ UNCHANGED <<job_vars, render>>

\* the chunks of a transcription and the top clips of a scoring, each
\* named by its start time.  success: the chunk is transcribed with a
\* text; duration_ok: end_time - start_time is within 2..15 s
\* (clip_generator.py:99); cut: ffmpeg cuts the clip
TranscribedChunks(n) ==
    {[k \in 1..n |-> [start_time |-> k, success |-> f[k][1], cut |-> f[k][2]]] :
        f \in [1..n -> {<<FALSE, TRUE>>, <<TRUE, TRUE>>, <<TRUE, FALSE>>}]}
TopClips(n) ==
    {[k \in 1..n |-> [start_time |-> k, duration_ok |-> f[k][1], cut |-> f[k][2]]] :
        f \in [1..n -> {<<FALSE, TRUE>>, <<TRUE, TRUE>>, <<TRUE, FALSE>>}]}

\* clip_generator.py:296: the successful chunks with a text
valid_chunks(transcribed) == SelectSeq(transcribed, LAMBDA c : c.success)

\* clip_generator.py:307-308: step = max(1, len(valid_chunks) // max_clips)
\* and [valid_chunks[i] for i in range(0, len(valid_chunks), step)][:max_clips]
selected_chunks_untruncated(valid, limit) ==
    LET step == IF Len(valid) \div limit > 1 THEN Len(valid) \div limit ELSE 1
    IN [k \in 1..((Len(valid) + step - 1) \div step) |-> valid[(k - 1) * step + 1]]
selected_chunks(valid, limit) ==
    LET step == IF Len(valid) \div limit > 1 THEN Len(valid) \div limit ELSE 1
        every == [k \in 1..((Len(valid) + step - 1) \div step) |-> valid[(k - 1) * step + 1]]
    IN SubSeq(every, 1, IF Len(every) < limit THEN Len(every) ELSE limit)

\* clip_generator.py:310-320: the pseudo top clip of a selected chunk (a
\* chunk lasts 3 to 10 s)
pseudo_top_clip(c) == [start_time |-> c.start_time, duration_ok |-> TRUE, cut |-> c.cut]

\* the locals at the start of generate_clips_from_pipeline_result: a
\* scoring with top clips, or none and the chunks of the transcription
GenerateClips ==
    {[fn |-> "generate_clips_from_pipeline_result", at |-> "start",
      top_clips |-> t, chunks |-> c, max_clips |-> m, fallback_used |-> FALSE,
      selected_chunks |-> << >>, generate_clips |-> << >>, updated |-> << >>] :
        t \in UNION {TopClips(n) : n \in 1..MaxTopClips},
        c \in {<< >>}, m \in 1..MaxClipLimit}
    \cup
    {[fn |-> "generate_clips_from_pipeline_result", at |-> "start",
      top_clips |-> << >>, chunks |-> c, max_clips |-> m, fallback_used |-> FALSE,
      selected_chunks |-> << >>, generate_clips |-> << >>, updated |-> << >>] :
        c \in UNION {TranscribedChunks(n) : n \in 0..MaxFallbackChunks},
        m \in 1..MaxClipLimit}

\* clip_generator.py:288-322: without top clips the fallback selects chunks
\* and makes them the top clips; without valid chunks the call returns
generate_clips_fallback ==
    /\ locals.fn = "generate_clips_from_pipeline_result" /\ locals.at = "start"
    /\ IF locals.top_clips # << >>
       THEN locals' = [locals EXCEPT !.at = "generate"]
       ELSE IF valid_chunks(locals.chunks) = << >>
       THEN locals' = [locals EXCEPT !.at = "failed", !.fallback_used = TRUE]
       ELSE LET selected == selected_chunks(valid_chunks(locals.chunks), locals.max_clips)
            IN locals' = [locals EXCEPT
                             !.at = "generate", !.fallback_used = TRUE,
                             !.selected_chunks = selected,
                             !.top_clips = [k \in 1..Len(selected) |->
                                               pseudo_top_clip(selected[k])]]
    /\ UNCHANGED <<job_vars, render>>

\* clip_generator.py:68-85 and 94-135: the first max_clips top clips are cut
\* in turn; a clip of an invalid duration and a failed cut give None
\* (98-101, 204-212) and nothing is appended; the clip made of entry i is
\* clip_number i + 1 and carries the start time it was cut from
RECURSIVE generate_clips_from_analysis(_, _)
generate_clips_from_analysis(clips_to_generate, i) ==
    IF i >= Len(clips_to_generate) THEN << >>
    ELSE LET clip_data == clips_to_generate[i + 1]
             rest == generate_clips_from_analysis(clips_to_generate, i + 1)
         IN IF clip_data.duration_ok /\ clip_data.cut
            THEN <<[clip_number |-> i + 1, start_time |-> clip_data.start_time]>> \o rest
            ELSE rest

\* clip_generator.py:323-325
generate_clips_generate ==
    /\ locals.fn = "generate_clips_from_pipeline_result" /\ locals.at = "generate"
    /\ locals' = [locals EXCEPT
                     !.at = "update",
                     !.generate_clips =
                         generate_clips_from_analysis(
                             SubSeq(locals.top_clips, 1,
                                    IF Len(locals.top_clips) < locals.max_clips
                                    THEN Len(locals.top_clips) ELSE locals.max_clips), 0)]
    /\ UNCHANGED <<job_vars, render>>

\* clip_generator.py:327-342: top_clips[i].update(...) with the fields of
\* generated_clips[i], for every i < len(top_clips)
update_top_clips(top_clips, clips) ==
    [k \in 1..Len(top_clips) |-> IF k <= Len(clips) THEN <<clips[k]>> ELSE << >>]

\* clip_generator.py:327-349
generate_clips_update ==
    /\ locals.fn = "generate_clips_from_pipeline_result" /\ locals.at = "update"
    /\ locals' = [locals EXCEPT
                     !.at = "returned",
                     !.updated = IF locals.generate_clips # << >>
                                 THEN update_top_clips(locals.top_clips, locals.generate_clips)
                                 ELSE [k \in 1..Len(locals.top_clips) |-> << >>]]
    /\ UNCHANGED <<job_vars, render>>

\* ------------------------------------------------- the chunker, in seconds
\* chunking.py:20-23, the defaults of VideoChunker
chunk_duration == 8
min_chunk_duration == 3
max_chunk_duration == 10

\* chunking.py:93-100: what _detect_scenes returns for a video of the
\* duration: up to MaxScenes times, 0 and the duration themselves included
DetectedScenes(duration) ==
    {{a, b, c} : a \in 0..duration, b \in 0..duration, c \in 0..duration}
        \cup {{}}

\* chunking.py:99-100: [0.0] + scene_times + [duration], sorted(list(set(...)))
RECURSIVE sorted(_)
sorted(times) ==
    IF times = {} THEN << >>
    ELSE LET least == CHOOSE t \in times : \A u \in times : t <= u
         IN <<least>> \o sorted(times \ {least})

\* chunking.py:102-134: the loop over scene_times from index i on (from 0
\* as in the code), with current_chunk_start and chunk_id
RECURSIVE chunk_video_by_scene(_, _, _, _, _)
chunk_video_by_scene(scene_times, i, current_chunk_start, chunk_id, duration) ==
    IF i >= Len(scene_times) THEN << >>
    ELSE LET current_duration == scene_times[i + 1] - current_chunk_start
         IN IF (current_duration >= chunk_duration \/ scene_times[i + 1] = duration)
               /\ current_duration >= min_chunk_duration
            THEN <<[id |-> chunk_id, start_time |-> current_chunk_start,
                    end_time |-> scene_times[i + 1], duration |-> current_duration]>>
                 \o chunk_video_by_scene(scene_times, i + 1, scene_times[i + 1],
                                         chunk_id + 1, duration)
            ELSE chunk_video_by_scene(scene_times, i + 1, current_chunk_start,
                                      chunk_id, duration)

\* chunking.py:215-248 _split_long_chunk: ceil(duration / chunk_duration)
\* pieces of chunk_duration, the last one up to the end; a piece shorter
\* than the minimum is left out; the piece i has the id start_id + i
split_long_chunk_whole(long_chunk, start_id) ==
    <<[long_chunk EXCEPT !.id = start_id]>>
split_long_chunk(long_chunk, start_id) ==
    LET num_sub_chunks == (long_chunk.duration + chunk_duration - 1) \div chunk_duration
        sub_start(i) == long_chunk.start_time + i * chunk_duration
        sub_end(i) == IF long_chunk.end_time < sub_start(i) + chunk_duration
                      THEN long_chunk.end_time ELSE sub_start(i) + chunk_duration
        piece(i) == [id |-> start_id + i, start_time |-> sub_start(i),
                     end_time |-> sub_end(i), duration |-> sub_end(i) - sub_start(i)]
    IN SelectSeq([k \in 1..num_sub_chunks |-> piece(k - 1)],
                 LAMBDA c : ~(c.duration < min_chunk_duration))

\* chunking.py:152-167: the loop of chunk_video_adaptive over the scene
\* chunks from position k on, with chunk_id
RECURSIVE chunk_video_adaptive(_, _, _)
chunk_video_adaptive(scene_chunks, k, chunk_id) ==
    IF k > Len(scene_chunks) THEN << >>
    ELSE IF scene_chunks[k].duration <= max_chunk_duration
    THEN <<[scene_chunks[k] EXCEPT !.id = chunk_id]>>
         \o chunk_video_adaptive(scene_chunks, k + 1, chunk_id + 1)
    ELSE LET sub_chunks == split_long_chunk(scene_chunks[k], chunk_id)
         IN sub_chunks \o chunk_video_adaptive(scene_chunks, k + 1,
                                               chunk_id + Len(sub_chunks))

\* the locals at the start of chunk_video_adaptive for a video
ChunkVideo ==
    UNION {{[fn |-> "chunk_video_adaptive", at |-> "start", duration |-> d,
             detected |-> s, scene_chunks |-> << >>, refined_chunks |-> << >>] :
               s \in DetectedScenes(d)} : d \in 1..MaxDuration}

\* chunking.py:149 and 77-136
chunk_video_adaptive_scenes ==
    /\ locals.fn = "chunk_video_adaptive" /\ locals.at = "start"
    /\ locals' = [locals EXCEPT
                     !.at = "scenes",
                     !.scene_chunks =
                         chunk_video_by_scene(
                             sorted({0} \cup locals.detected \cup {locals.duration}),
                             1, 0, 0, locals.duration)]
    /\ UNCHANGED <<job_vars, render>>

\* chunking.py:151-169
chunk_video_adaptive_refine ==
    /\ locals.fn = "chunk_video_adaptive" /\ locals.at = "scenes"
    /\ locals' = [locals EXCEPT
                     !.at = "returned",
                     !.refined_chunks = chunk_video_adaptive(locals.scene_chunks, 1, 0)]
    /\ UNCHANGED <<job_vars, render>>

\* --------------------------------- transcribe_chunks, task by task
\* the locals at the start of transcribe_chunks for n chunks, with the
\* progress callback of a worker (process.py:452-455), which raises
\* KeyError once the record of its job is deleted; tasks[i] is the task
\* of chunks[i], results[i] what gather holds for it, callbacks[i] the
\* calls of the callback with index + 1 = i
TranscribeChunks ==
    {[fn |-> "transcribe_chunks", at |-> "gather", record |-> TRUE,
      tasks |-> [i \in 1..n |-> "waiting"], results |-> [i \in 1..n |-> "none"],
      callbacks |-> [i \in 1..n |-> 0], valid_results |-> << >>] : n \in 1..MaxTasks}

\* whisper_service.py:248: the task of chunk i gets the semaphore, in the
\* order the tasks were created, while fewer than 3 tasks hold it
transcribe_chunk_enter(i) ==
    /\ locals.fn = "transcribe_chunks" /\ locals.at = "gather"
    /\ i \in DOMAIN locals.tasks /\ locals.tasks[i] = "waiting"
    /\ \A k \in 1..(i - 1) : locals.tasks[k] # "waiting"
    /\ Cardinality({k \in DOMAIN locals.tasks : locals.tasks[k] = "running"}) < SemaphoreLimit
    /\ locals' = [locals EXCEPT !.tasks[i] = "running"]
    /\ UNCHANGED <<job_vars, render>>

\* whisper_service.py:251-277: transcribe_audio returns or raises.  When it
\* returns, the callback is awaited inside the try (262-263): if it raises,
\* the except branch builds the failure result and awaits the callback
\* again (275-276), and what that raises leaves the task.  When
\* transcribe_audio raises, the callback is awaited once, in the except
\* branch
transcribe_chunk_leave(i) ==
    /\ locals.fn = "transcribe_chunks" /\ locals.at = "gather"
    /\ i \in DOMAIN locals.tasks /\ locals.tasks[i] = "running"
    /\ \E transcribed \in BOOLEAN :
          locals' = [locals EXCEPT
                        !.tasks[i] = "done",
                        !.callbacks[i] = IF transcribed /\ ~locals.record THEN 2 ELSE 1,
                        !.results[i] = IF ~locals.record THEN "exception"
                                       ELSE IF transcribed THEN "success" ELSE "failure"]
    /\ UNCHANGED <<job_vars, render>>

\* process.py:669-676: a client deletes the job while its chunks are
\* transcribed
transcribe_chunks_record_deleted ==
    /\ locals.fn = "transcribe_chunks" /\ locals.at = "gather"
    /\ locals.record
    /\ locals' = [locals EXCEPT !.record = FALSE]
    /\ UNCHANGED <<job_vars, render>>

\* whisper_service.py:283-299: gather returns when every task has ended,
\* and an exception among the results becomes a failure result
transcribe_chunks_return ==
    /\ locals.fn = "transcribe_chunks" /\ locals.at = "gather"
    /\ \A i \in DOMAIN locals.tasks : locals.tasks[i] = "done"
    /\ locals' = [locals EXCEPT
                     !.at = "returned",
                     !.valid_results = [i \in DOMAIN locals.results |->
                                           IF locals.results[i] = "exception"
                                           THEN "failure" ELSE locals.results[i]]]
    /\ UNCHANGED <<job_vars, render>>

ServicesNext ==
    \/ call_gemini_attempt
    \/ generate_clips_fallback
    \/ generate_clips_generate
    \/ generate_clips_update
    \/ chunk_video_adaptive_scenes
    \/ chunk_video_adaptive_refine
    \/ \E i \in 1..MaxTasks : transcribe_chunk_enter(i)
    \/ \E i \in 1..MaxTasks : transcribe_chunk_leave(i)
    \/ transcribe_chunks_record_deleted
    \/ transcribe_chunks_return

ServicesInit ==
    JobsInit /\ render = NoRender /\ locals \in {CallGemini} \cup GenerateClips \cup ChunkVideo \cup TranscribeChunks

ServicesSpec == ServicesInit /\ [][ServicesNext]_vars

\* ------------------------------------------------------------ properties
SubmitOps == {"upload_and_analyze", "process_cloudinary_video", "render_timeline"}

\* positions at which a worker is between the writes of its completion or
\* of its except handler
BetweenWrites == HandlerFields \cup {"complete_fields"}

C2_ProgressNeverDecreases ==
    [][\A j \in JobIds :
          (/\ Present(j) /\ Present(j)'
           /\ Rec(j).status \in RunningStatus
           /\ \A k \in JobIds : pc[k] \notin InBlock /\ pc'[k] \notin InBlock) =>
              /\ Rec(j)'.progress >= Rec(j).progress
              /\ Rec(j)'.status \in RunningStatus \cup TerminalStatus
      ]_vars

\* C3: once the completion or the failure of a job is written, no step
\* changes the status, the result or the error of its record.
C3_TerminalImmutable ==
    [][\A j \in JobIds :
          (/\ Present(j) /\ Present(j)'
           /\ Rec(j).status \in TerminalStatus
           /\ pc[j] \notin BetweenWrites) =>
              /\ Rec(j)'.status = Rec(j).status
              /\ Rec(j)'.result = Rec(j).result
              /\ Rec(j)'.error = Rec(j).error
      ]_vars

\* C4: the response of get-result on a present job carries the result
\* exactly when the status of the job is completed; for every other status
\* it is the not-completed error (400) and carries no result, whatever the
\* result field of the record holds.
C4_ResultOnlyWhenCompleted ==
    (resp.op = "result" /\ resp.id \in DOMAIN Registry(resp.reg)) =>
        LET job == Registry(resp.reg)[resp.id] IN
            IF job.status = "completed"
            THEN resp.code = 200 /\ resp.result = job.result
            ELSE resp.code = 400 /\ resp.result = NoResult

\* get-result answers not-completed for a failed job whose result field
\* holds performance data
C4_Witness ==
    /\ resp.op = "result" /\ resp.code = 400
    /\ resp.id \in DOMAIN processing_jobs
    /\ processing_jobs[resp.id].status = "failed"
    /\ processing_jobs[resp.id].result.present

\* C5: an exception that reaches the handler of a worker makes the status
\* failed; once the handler has run, a failed record carries a non-empty
\* error text; a worker that has ended leaves a terminal status; and no step
\* that leaves a record failed changes its progress.
C5_FailureRecorded ==
    [][\A j \in JobIds : (Present(j) /\ Present(j)') =>
          /\ (pc[j] \in {"except", "except_request"} /\ pc'[j] # pc[j]) =>
                Rec(j)'.status = "failed"
          /\ (Rec(j)'.status = "failed" /\ pc'[j] \notin HandlerFields) =>
                Rec(j)'.error.present /\ Len(Rec(j)'.error.text) > 0
          /\ pc'[j] = "done" => Rec(j)'.status \in TerminalStatus
          /\ Rec(j)'.status = "failed" => Rec(j)'.progress = Rec(j).progress
      ]_vars

\* a render failed by a tool that printed nothing: the error is the two
\* wrappers' text and the progress is the one written before the render
C5_Witness ==
    \E j \in JobIds :
        /\ j \in DOMAIN render_jobs /\ pc[j] = "done"
        /\ render_jobs[j].status = "failed"
        /\ render_jobs[j].error.text = RenderErrorText(<< >>)
        /\ render_jobs[j].progress = 50

\* C6: a delete of a present id answers 200, removes that record and leaves
\* every other record of both registries as it was; a delete of an absent
\* id answers 404 and leaves both registries as they were; and every status,
\* result or delete request on an id deleted earlier answers 404.
C6_DeleteExactlyOne ==
    [][(resp = NoResponse /\ resp'.op \in {"status", "result", "delete"}) =>
          LET j == resp'.id
              before == Registry(resp'.reg)
              after == IF resp'.reg = "render" THEN render_jobs' ELSE processing_jobs'
          IN /\ (resp'.op = "delete" /\ j \in DOMAIN before) =>
                    /\ resp'.code = 200
                    /\ DOMAIN after = DOMAIN before \ {j}
                    /\ \A k \in DOMAIN after : after[k] = before[k]
                    /\ IF resp'.reg = "render" THEN UNCHANGED processing_jobs
                       ELSE UNCHANGED render_jobs
             /\ (resp'.op = "delete" /\ j \notin DOMAIN before) =>
                    /\ resp'.code = 404
                    /\ UNCHANGED <<processing_jobs, render_jobs>>
             /\ j \in deleted => resp'.code = 404
      ]_vars

\* a second delete of a deleted id answers 404 while another record is
\* still in a registry
C6_Witness ==
    /\ resp.op = "delete" /\ resp.code = 404 /\ resp.id \in deleted
    /\ DOMAIN processing_jobs \cup DOMAIN render_jobs # {}

\* C7: a delete request on a job whose status is running leaves its record
\* in the registry.
C7_DeleteOnlyTerminal ==
    [][(/\ resp = NoResponse /\ resp'.op = "delete"
        /\ resp'.id \in DOMAIN Registry(resp'.reg)
        /\ Registry(resp'.reg)[resp'.id].status \in RunningStatus) =>
          resp'.id \in DOMAIN (IF resp'.reg = "render" THEN render_jobs'
                               ELSE processing_jobs')
      ]_vars

\* C8: the record of every job that was submitted and that no client
\* deleted is in its registry, and get-status on such a job answers 200.
C8_OnlyDeleteRemoves ==
    /\ \A j \in JobIds : (kind[j] # "none" /\ j \notin deleted) => Present(j)
    /\ (/\ resp.op = "status" /\ kind[resp.id] # "none"
        /\ resp.id \notin deleted /\ resp.reg = RegOf(resp.id)) => resp.code = 200

\* get-status finds the record of a job whose worker ended in failure
C8_Witness ==
    /\ resp.op = "status" /\ resp.code = 200
    /\ pc[resp.id] = "done" /\ resp.job.status = "failed"
    /\ resp.id \notin deleted

\* C9: every transcription call of a job reads the language that the
\* request of that job asked for.
C9_OwnLanguage ==
    \A j \in JobIds : used_language[j] \subseteq {RequestedLanguage(j)}

\* C10: a status snapshot that says completed carries the result and
\* progress 100, and one that says failed carries the error.
C10_SnapshotConsistent ==
    (resp.op = "status" /\ resp.code = 200) =>
        /\ resp.job.status = "completed" =>
              resp.job.result.present /\ resp.job.progress = 100
        /\ resp.job.status = "failed" => resp.job.error.present

\* a completed job is read while the worker of another job is transcribing
C10_Witness ==
    /\ resp.op = "status" /\ resp.code = 200 /\ resp.job.status = "completed"
    /\ \E k \in JobIds : pc[k] = "transcribing" /\ InProgress(k) > 0

\* --------------------------------------------- properties of one pipeline
\* C11: within one analysis job at most 3 transcription calls are in
\* progress at the same time, whatever the number of chunks, and the
\* transcription of a further chunk starts only when fewer than 3 are in
\* progress, that is, after one of the 3 has finished.
C11_AtMostThreeTranscriptions ==
    [][\A j \in JobIds :
          /\ InProgress(j)' <= 3
          /\ \A i \in DOMAIN chunks[j] \cap DOMAIN chunks'[j] :
                (chunks[j][i] = "waiting" /\ chunks'[j][i] = "running")
                    => InProgress(j) < 3]_vars

\* three transcriptions are running and a fourth chunk waits for the
\* semaphore
C11_Witness ==
    \E j \in JobIds :
        /\ Len(chunks[j]) > 3
        /\ InProgress(j) = 3
        /\ \E i \in DOMAIN chunks[j] : chunks[j][i] = "waiting"

\* the tools that ran in job j
Tools(j) == {calls[j][k].tool : k \in 1..Len(calls[j])}
Runs(j) == {calls[j][k] : k \in 1..Len(calls[j])}

\* the stage of the render a tool run belongs to: 1 materialization,
\* 2 normalization, 3 concatenation, 4 audio mixing or finalization,
\* 5 the output check and the result
StageOf(tool) ==
    CASE tool \in {"probe_resolution", "synthesize_image", "synthesize_text"} -> 1
      [] tool \in {"probe_target", "probe_audio", "probe_props", "normalize"} -> 2
      [] tool \in {"probe_silent_input", "concatenate"} -> 3
      [] tool \in {"probe_audio_stream", "silent_audio", "mix", "finalize"} -> 4
      [] OTHER -> 5

RenderOrder(j) ==
    /\ \A a, b \in 1..Len(calls[j]) :
          a < b => StageOf(calls[j][a].tool) <= StageOf(calls[j][b].tool)
    /\ (\E t \in Tools(j) : StageOf(t) >= 2)
          => Len(processed_clips[j]) = Len(request[j].timeline_clips)
    /\ (\E t \in Tools(j) : StageOf(t) >= 3)
          => Fixed(j) = Len(processed_clips[j])
    /\ (\E t \in Tools(j) : StageOf(t) >= 4) => Call("concatenate", "ok") \in Runs(j)
    /\ "output_check" \in Tools(j)
          => (Call("mix", "ok") \in Runs(j) \/ Call("finalize", "ok") \in Runs(j))

AnalysisOrder(j) ==
    /\ (pc[j] # "vibe" /\ pc'[j] = "vibe")
          => /\ pc[j] = "transcribing"
             /\ chunks[j] # << >>
             /\ \A i \in DOMAIN chunks[j] : chunks[j][i] = "done"
    /\ (pc[j] # "clips" /\ pc'[j] = "clips") => pc[j] = "vibe"
    /\ (chunks'[j] # chunks[j]) => pc[j] \in {"chunking", "transcribing"}
    /\ (calls'[j] # calls[j]) => pc[j] = "clips"

\* C12: within one job the stages run strictly in pipeline order.  Render:
\* every timeline item is materialized before any normalization run,
\* every segment is normalized before the concatenation, the
\* concatenation has succeeded before audio mixing or finalization, and
\* the output check comes after them, no run of an earlier stage following
\* a run of a later one.  Analysis: scoring starts only when every chunk's
\* transcription has finished, and clip extraction starts only when
\* scoring has returned.
C12_StagesInOrder ==
    [][\A j \in JobIds :
          /\ kind[j] = "render" => RenderOrder(j)'
          /\ kind[j] = "upload" => AnalysisOrder(j)]_vars

\* a render of an image item and a clip item has returned its result
C12_Witness ==
    \E j \in JobIds :
        /\ kind[j] = "render" /\ pc[j] = "complete"
        /\ Len(processed_clips[j]) = 2
        /\ "normalize" \in Tools(j) /\ "synthesize_image" \in Tools(j)
        /\ "output_check" \in Tools(j)

\* C13: every submitted render job eventually reaches completed or failed,
\* even when a tool run does not return by itself: every probe,
\* synthesize, normalize, concatenate, silent-audio and mix run is bounded
\* by a timeout whose expiry fails the stage and the job.
C13_RenderEnds ==
    \A j \in JobIds :
        (kind[j] = "render") ~> (Present(j) /\ Rec(j).status \in TerminalStatus)

\* C14: a tool failure is always fatal to the job: in a render or an
\* analysis job in which a probe, cut, synthesize, normalize, concat or
\* mix run has failed, the job never has status completed and ends with
\* status failed; this includes a failed cut of the clip extraction.
C14_ToolFailureFatal ==
    \A j \in JobIds :
        (\E run \in Runs(j) : run.result \in {"failed", "timeout"})
            => /\ Present(j) => Rec(j).status # "completed"
               /\ (pc[j] = "done" /\ Present(j)) => Rec(j).status = "failed"

\* the seconds a duration of the request stands for: the second count, or
\* minutes*60+seconds of a minutes:seconds label
Seconds(duration) ==
    LET parts == Split(duration)
    IN IF Len(parts) = 2 THEN IntValue(parts[1]) * 60 + IntValue(parts[2])
       ELSE IntValue(duration)

Timeline(j) == request[j].timeline_clips
ItemsOf(j, type) == {k \in 1..Len(Timeline(j)) : Timeline(j)[k].type = type}

\* C15: in a render where every Clip file exists and every tool run
\* succeeds, an Image item whose file is missing and a Text item whose
\* content is empty do not abort the job: each is replaced by the fallback
\* (the black image, the placeholder text), contributes exactly one
\* segment at its position, and the job ends completed.
C15_FallbackDoesNotAbort ==
    \A j \in JobIds :
        ( /\ kind[j] = "render" /\ services /\ Present(j)
          /\ \E k \in ItemsOf(j, "image") \cup ItemsOf(j, "text") : ~Timeline(j)[k].given
          /\ \A k \in ItemsOf(j, "clip") : Timeline(j)[k].given
          /\ \A run \in Runs(j) : run.result = "ok" )
        => /\ pc[j] \notin {"except", "except_fields"}
           /\ Rec(j).status # "failed"
           /\ pc[j] = "done" => Rec(j).status = "completed"
           /\ pc[j] \in {"complete", "complete_fields", "done"}
                 => Len(processed_clips[j]) = Len(Timeline(j))
           /\ \A k \in 1..Len(processed_clips[j]) :
                 /\ processed_clips[j][k].timelineId = k
                 /\ (Timeline(j)[k].type = "image" /\ ~Timeline(j)[k].given)
                       => processed_clips[j][k].shows = "black.jpg"
                 /\ (Timeline(j)[k].type = "text" /\ ~Timeline(j)[k].given)
                       => processed_clips[j][k].shows = "Untitled"

\* C16: if the file of any Clip item, at any position of the timeline,
\* does not exist, the render job never completes and ends failed, and no
\* normalization run and no concatenation run is made for the job.
C16_MissingClipFails ==
    \A j \in JobIds :
        (kind[j] = "render" /\ \E k \in ItemsOf(j, "clip") : ~Timeline(j)[k].given)
        => /\ pc[j] \notin {"complete", "complete_fields"}
           /\ Present(j) => Rec(j).status # "completed"
           /\ (pc[j] = "done" /\ Present(j)) => Rec(j).status = "failed"
           /\ \A t \in Tools(j) : StageOf(t) \notin {2, 3}

\* the second item is a Clip whose file is missing: the first item was
\* materialized and the render has raised the missing file
C16_Witness ==
    \E j \in JobIds :
        /\ kind[j] = "render" /\ pc[j] = "except"
        /\ Len(Timeline(j)) = 2
        /\ Timeline(j)[2].type = "clip" /\ ~Timeline(j)[2].given
        /\ "synthesize_image" \in Tools(j)
        /\ raised[j] = Error(RenderErrorText(ExceptionText("Clip file not found")))

\* the seconds the items before the k-th take
RECURSIVE Elapsed(_, _)
Elapsed(timeline, k) ==
    IF k <= 1 THEN 0
    ELSE Elapsed(timeline, k - 1) + Seconds(timeline[k - 1].duration)

\* the interval of each Clip item of the timeline from the k-th on
RECURSIVE ClipIntervals(_, _)
ClipIntervals(timeline, k) ==
    IF k > Len(timeline) THEN << >>
    ELSE (IF timeline[k].type = "clip"
          THEN <<[start |-> Elapsed(timeline, k),
                  end |-> Elapsed(timeline, k) + Seconds(timeline[k].duration)]>>
          ELSE << >>) \o ClipIntervals(timeline, k + 1)

\* C17: for every render with background music whose timeline has a Clip
\* item, the mute regions handed to the mixer are exactly the intervals of
\* the Clip items, each from the sum of the durations of the segments
\* before it to that sum plus its own duration, so the music is lowered
\* exactly during the Clip items.
C17_MuteRegionsAreClips ==
    \A j \in JobIds :
        (kind[j] = "render" /\ mixer[j].ran /\ ItemsOf(j, "clip") # {})
            => mixer[j].mute_regions = ClipIntervals(Timeline(j), 1)

\* C18: for every timeline made only of Image and Text items the mute
\* region list is empty and the background music is mixed at full gain
\* for the whole duration of the video.
C18_NoClipNoMute ==
    \A j \in JobIds :
        (kind[j] = "render" /\ Timeline(j) # << >> /\ ItemsOf(j, "clip") = {})
            => /\ mute_regions[j] = << >>
               /\ mixer[j].ran
                     => /\ mixer[j].mute_regions = << >>
                        /\ mixer[j].bgm
                        /\ \A t \in 0..Elapsed(Timeline(j), Len(Timeline(j)) + 1) :
                              BgmVolume(mixer[j].mute_regions, t) = "1.0"

\* the music has been mixed into a render of an Image and a Text item
C18_Witness ==
    \E j \in JobIds :
        /\ kind[j] = "render" /\ Len(Timeline(j)) = 2 /\ ItemsOf(j, "clip") = {}
        /\ ItemsOf(j, "image") # {} /\ ItemsOf(j, "text") # {}
        /\ mixer[j].ran /\ Call("mix", "ok") \in Runs(j)

\* C19: for every render request with a sound effect whose file exists,
\* the mix stage takes the effect as an additional input shifted by its
\* delay, with or without background music; an effect whose file is
\* missing is left out of the mix.
C19_SfxMixed ==
    \A j \in JobIds :
        ( /\ kind[j] = "render"
          /\ Call("mix", "ok") \in Runs(j) \/ Call("finalize", "ok") \in Runs(j) )
        => \A k \in 1..Len(request[j].sfx_list) :
              LET sfx == request[j].sfx_list[k]
                  inputs == {mixer[j].sfx[i] : i \in 1..Len(mixer[j].sfx)}
              IN IF sfx.path = "exists" THEN mixer[j].ran /\ sfx \in inputs
                 ELSE sfx \notin inputs

\* what the renderer raises on a duration it cannot convert
DurationErrors ==
    {RenderErrorText(ExceptionText("invalid literal for int() with base 10")),
     RenderErrorText(ExceptionText("could not convert string to float"))}

\* C20: for every timeline item of every kind a duration given as a second
\* count or as a minutes:seconds label is accepted and converted to
\* minutes*60+seconds; the render of no item kind fails because of the
\* minutes:seconds form.
C20_DurationFormsAccepted ==
    \A j \in JobIds :
        kind[j] = "render"
        => /\ raised[j].present => raised[j].text \notin DurationErrors
           /\ \A k \in 1..Len(processed_clips[j]) :
                 parse_duration(processed_clips[j][k].duration)
                     = Value(Seconds(Timeline(j)[k].duration))

\* ------------------------------------------- properties of C21 to C30

\* C27: in every reachable state the progress of every job lies between 0
\* and 100 inclusive, whatever the number of chunks, the order in which the
\* chunks end and the size of the download; the download progress stays in
\* that range for every downloaded size and every announced size.
C27_ProgressInRange ==
    /\ \A j \in JobIds : Present(j) => (Rec(j).progress >= 0 /\ Rec(j).progress <= 100)
    /\ \A downloaded_size \in 0..MaxSize, total_size \in 1..MaxSize :
          /\ download_progress(downloaded_size, total_size) >= 0
          /\ download_progress(downloaded_size, total_size) <= 100

\* a download has delivered more than the announced size and the progress
\* written for it is the cap
C27_Witness ==
    \E j \in JobIds :
        /\ kind[j] = "url" /\ Present(j) /\ pc[j] = "downloading"
        /\ download[j].total_size > 0
        /\ download[j].downloaded_size > download[j].total_size
        /\ Rec(j).progress = 20

\* C23: when a render job ends failed, at whatever stage the failure
\* happens (the mix, the finalization, the check of the output file), no
\* file written by that render remains in the rendered_videos directory,
\* from which the rendered-videos endpoint serves every file by name.
C23_NoOutputOfFailedRender ==
    \A j \in JobIds :
        (kind[j] = "render" /\ Present(j) /\ Rec(j).status = "failed")
            => rendered_videos[j] = "absent"

\* the record the worker has written when the first stage of the render
\* starts (process.py:953-955)
AtFirstStage(job) == job.progress = 50 /\ job.current_step = <<"stitching_clips">>

\* C26: the worker of a render job updates the progress and the current
\* step after the stage boundaries, so that the values get-status reads at
\* the end of the last stage, before the completion is written, are not
\* those it read at the start of the first stage.
C26_ProgressFollowsStages ==
    \A j \in JobIds :
        (kind[j] = "render" /\ Present(j) /\ pc[j] = "complete")
            => ~AtFirstStage(Rec(j))

\* a body with an item that lacks a required field or carries a type tag
\* that is none of clip, image, text
Malformed(body) ==
    \E k \in 1..Len(body.timeline_clips) :
        \/ body.timeline_clips[k].type \notin {"clip", "image", "text"}
        \/ ~body.timeline_clips[k].required

\* C24: a render submission whose timeline holds a malformed item is
\* answered with the validation error 422: no job record is created, no
\* worker is scheduled, no job id is used and both registries are unchanged.
C24_MalformedRejected ==
    [][next_id = 1 =>
         \A body \in Bodies :
            (Malformed(body) /\ render_timeline_video_post(body))
                => /\ resp'.code = 422
                   /\ UNCHANGED <<render_jobs, processing_jobs, kind, pc, next_id, request>>
      ]_vars

\* the validation error is about to be sent and nothing was registered
C24_Witness ==
    /\ resp.op = "render_timeline" /\ resp.code = 422
    /\ next_id = 1
    /\ DOMAIN render_jobs = {} /\ DOMAIN processing_jobs = {}
    /\ \A j \in JobIds : pc[j] = "none"

\* the pipeline stage a position of a worker belongs to.  Analysis: 1 the
\* upload is saved, 2 transcription, 3 vibe analysis, 4 clip generation.
\* Render: 1 materialization, 2 normalization, 3 concatenation, 4 audio
\* mixing or finalization, 5 the output check.  Then the completion (8),
\* the failure handler (9) and the end (10)
StageAt(p) ==
    CASE p \in {"none", "reading", "queued"} -> 0
      [] p \in {"saving", "materialize", "items", "regions", "concat_list"} -> 1
      [] p \in {"chunking", "transcribing", "normalize", "fix_audio", "fix_props", "fix"} -> 2
      [] p \in {"vibe", "silent_inputs", "concatenate"} -> 3
      [] p \in {"clips", "audio_check", "silent_audio", "mix_or_finalize"} -> 4
      [] p \in {"output_check", "output_duration"} -> 5
      [] p \in {"complete", "complete_fields"} -> 8
      [] p \in {"except", "except_fields"} -> 9
      [] OTHER -> 10

\* the runs of `tools` in a record of tool runs
CountRuns(log, tools) == Cardinality({k \in 1..Len(log) : log[k].tool \in tools})

\* the tools a job runs once, and those it runs once for each file
OnceTools == {{"probe_target"}, {"concatenate"}, {"probe_audio_stream"}, {"silent_audio"},
              {"mix", "finalize"}, {"output_check"}, {"probe_duration"}}
PerFileTools == {{"synthesize_image", "synthesize_text"}, {"probe_resolution"},
                 {"probe_audio"}, {"probe_props"}, {"normalize"}, {"probe_silent_input"}}

\* C25: the orchestrator never retries.  In every job a stage that has
\* been left is never entered again, each stage's tool is run at most once
\* (once for each file or each clip where the stage works file by file), a
\* chunk that has been transcribed is not transcribed again, and after a
\* stage has raised no tool is run and no stage is entered any more: the
\* job goes through its failure handler to failed.
C25_NoRetry ==
    [][\A j \in JobIds :
          /\ StageAt(pc[j]) <= StageAt(pc'[j])
          /\ \A tools \in OnceTools : CountRuns(calls'[j], tools) <= 1
          /\ \A tools \in PerFileTools :
                CountRuns(calls'[j], tools) <= Len(request'[j].timeline_clips)
          /\ CountRuns(calls'[j], {"cut"}) <= max_clips
          /\ \A i \in DOMAIN chunks[j] \cap DOMAIN chunks'[j] :
                /\ chunks[j][i] = "done" => chunks'[j][i] = "done"
                /\ chunks[j][i] = "running" => chunks'[j][i] # "waiting"
          /\ StageAt(pc[j]) >= 9
                => /\ calls'[j] = calls[j]
                   /\ chunks'[j] = chunks[j] \/ chunks'[j] = << >>
          /\ (pc[j] = "except_fields" /\ pc'[j] = "done" /\ Present(j)')
                => Rec(j)'.status = "failed"
      ]_vars

\* the concatenation of a render has failed, once, and the job has ended
\* failed
C25_Witness ==
    \E j \in JobIds :
        /\ kind[j] = "render" /\ pc[j] = "done"
        /\ Present(j) /\ Rec(j).status = "failed"
        /\ Call("concatenate", "failed") \in Runs(j)
        /\ CountRuns(calls[j], {"concatenate"}) = 1

\* the files in generated_clips/ that hold the synthesized segments of job j
SegmentFiles(j) ==
    {SegmentName(request[j].timeline_clips[k].type, k - 1) :
        k \in {i \in 1..Len(processed_clips[j]) : request[j].timeline_clips[i].type # "clip"}}

\* C22: every file a render job writes into the shared clip store has a
\* name of its own, so that for any two render jobs, concurrent or
\* successive, no write replaces a file written by the other job, and the
\* files a job reads back for its synthesized segments are those it wrote.
C22_NamesNeverCollide ==
    [][/\ \A name \in GeneratedNames :
             generated_clips[name] # 0 => generated_clips'[name] = generated_clips[name]
       /\ \A j \in JobIds :
             (kind[j] = "render" /\ StageAt(pc'[j]) \in {2, 3})
                => \A name \in SegmentFiles(j)' : generated_clips'[name] = j
      ]_vars


\* the position of the first item of the timeline that satisfies Is, 0 if
\* there is none
FirstItem(timeline_clips, Is(_)) ==
    IF \E k \in 1..Len(timeline_clips) : Is(timeline_clips[k])
    THEN CHOOSE k \in 1..Len(timeline_clips) :
            /\ Is(timeline_clips[k])
            /\ \A m \in 1..(k - 1) : ~Is(timeline_clips[m])
    ELSE 0

IsClip(item) == item_type(item) = "clip"
IsProbedClip(item) == item_type(item) = "clip" /\ item.probe

\* the files of the items are written
Materialized == render.step \notin {"none", "resolution", "items"}

\* the target of the normalization is read
TargetRead == render.step \notin {"none", "resolution", "items", "target"}

\* the command of the concatenation is built
GraphBuilt == render.step \notin {"none", "resolution", "items", "target", "fix", "graph"}

\* C30: in a timeline with a Clip item whose file can be probed, its type
\* given or inferred, the file of every Image and Text item has the
\* resolution of the first such Clip item; it has the default resolution
\* only in a timeline without such a Clip item.
C30_SynthesizedAtClipResolution ==
    Materialized =>
        LET timeline_clips == render.timeline_clips
            first == FirstItem(timeline_clips, IsProbedClip)
        IN \A k \in 1..Len(render.file_paths) :
              ~IsClip(timeline_clips[render.file_paths[k].idx + 1]) =>
                  render.file_paths[k].resolution =
                      IF first = 0 THEN "1280x720"
                      ELSE timeline_clips[first].props.resolution


\* C21: in a timeline with a Clip item, the resolution, the frame rate and
\* the pixel format every segment is normalized to are those of the first
\* Clip item, whatever comes before it in the timeline.
C21_TargetOfFirstClip ==
    TargetRead =>
        LET timeline_clips == render.timeline_clips
            first == FirstItem(timeline_clips, IsClip)
        IN first # 0 =>
              /\ render.target[1] = timeline_clips[first].props
              /\ (render.step # "fix" =>
                    \A k \in 1..Len(render.fixed_files) :
                        get_video_props(render.fixed_files[k]) = timeline_clips[first].props)


\* C28: when a segment has audio, the audio concatenation has one input
\* per segment, its k-th input is the audio stream of segment k if that
\* segment has audio and a silent input made for segment k otherwise, and
\* no reference points at an input without an audio stream.
C28_AudioInputPerSegment ==
    (GraphBuilt /\ render.num_audio_inputs > 0) =>
        LET chain == render.final_audio_chain
            inputs == render.input_args
        IN /\ Len(chain) = Len(render.fixed_files)
           /\ \A k \in 1..Len(chain) :
                 /\ chain[k] < Len(inputs)
                 /\ inputs[chain[k] + 1].audio
                 /\ inputs[chain[k] + 1].segment = k - 1
                 /\ inputs[chain[k] + 1].input =
                        IF render.audio_flags[k] THEN "file" ELSE "anullsrc"


FailedFix(log) ==
    IF \E k \in 1..Len(log) :
          log[k].tool \in PropsProbes \cup {"normalize"}
          /\ log[k].result \in {"failed", "no_stream"}
    THEN CHOOSE k \in 1..Len(log) :
            log[k].tool \in PropsProbes \cup {"normalize"}
            /\ log[k].result \in {"failed", "no_stream"}
    ELSE 0

\* the path of the segment whose run is at position k of the log: the
\* first for the probe of the target, else the one after the files
\* re-encoded before
FixPath(log, k) ==
    IF log[k].tool = "probe_target" THEN file_paths[1]
    ELSE file_paths[CountRuns(SubSeq(log, 1, k - 1), {"normalize"}) + 1]

\* C31: when the probe or the re-encode of a segment fails during the
\* normalization, the concatenation is never run for that render, the
\* render fails, and the error message names the file of that segment.
C31_FailedFixNamesFile ==
    \A j \in JobIds :
        (kind[j] = "render" /\ FailedFix(calls[j]) # 0) =>
            /\ "concatenate" \notin Tools(j)
            /\ pc[j] \in {"except", "except_fields"} \cup Ended
            /\ pc[j] # "complete"
            /\ Present(j) =>
                  /\ pc[j] = "done" => Rec(j).status = "failed"
                  /\ Rec(j).error.present =>
                        \E i \in 1..Len(Rec(j).error.text) :
                            Rec(j).error.text[i] = FixPath(calls[j], FailedFix(calls[j]))


\* the positions of the items that are not skipped
Kept(timeline_clips) ==
    {k \in 1..Len(timeline_clips) : item_type(timeline_clips[k]) # "None"}

\* C32: an item whose type is absent and cannot be inferred is skipped
\* and the render does not fail for it: the other items are materialized
\* in their order, as many segments as items not skipped, however many
\* items are skipped.
C32_SkippedItemsDoNotFail ==
    Materialized =>
        LET timeline_clips == render.timeline_clips
            files == render.file_paths
        IN /\ Len(files) = Cardinality(Kept(timeline_clips))
           /\ \A k \in 1..Len(files) : files[k].idx + 1 \in Kept(timeline_clips)
           /\ \A k, m \in 1..Len(files) : k < m => files[k].idx < files[m].idx
           /\ (Kept(timeline_clips) # DOMAIN timeline_clips) =>
                 render.error # "list index out of range"


\* C33: one call of _call_gemini makes at most 5 attempts; an attempt is
\* followed by another only if it failed with a 429 error and fewer than
\* 5 attempts were made; any other error, and the error of the 5th
\* attempt, is raised at once; the call ends with the response text or
\* with the error raised, never by returning nothing.
C33_GeminiRetries ==
    locals.fn = "_call_gemini" =>
        LET log == locals.attempts
            last == log[Len(log)]
        IN /\ Len(log) <= 5
           /\ \A k \in 1..(Len(log) - 1) : "429" \in {log[k][i] : i \in 1..Len(log[k])}
           /\ locals.returned # <<"None">>
           /\ (locals.returned # << >>) => (locals.raised = << >> /\ locals.returned = last)
           /\ (locals.raised # << >>) => (locals.returned = << >> /\ locals.raised = <<last>>)
           /\ (log # << >> /\ last \in GeminiErrors
                 /\ ("429" \notin {last[i] : i \in 1..Len(last)} \/ Len(log) = 5))
                 => locals.raised = <<last>>
           /\ (log # << >> /\ last = <<"response.text">>) => locals.returned = last

\* the fifth attempt fails with 429 after four retries, and is raised
C33_Witness ==
    /\ locals.fn = "_call_gemini"
    /\ Len(locals.attempts) = 5
    /\ locals.attempt = 4
    /\ locals.raised = <<<<"429", " Resource has been exhausted">>>>


\* C34: when the scoring gives no clips and there are n >= 1 valid chunks
\* and a limit of m >= 1 clips, the fallback selects the valid chunks at
\* the indices 0, s, 2s, ... with s = max(1, n div m), the first m of
\* them: distinct chunks, in their order, at most m.
C34_FallbackStride ==
    (locals.fn = "generate_clips_from_pipeline_result" /\ locals.fallback_used
        /\ locals.at \notin {"start", "failed"}) =>
        LET valid == SelectSeq(locals.chunks, LAMBDA c : c.success)
            n == Len(valid)
            m == locals.max_clips
            s == IF n \div m >= 1 THEN n \div m ELSE 1
            selected == locals.selected_chunks
        IN /\ n >= 1
           /\ Len(selected) >= 1 /\ Len(selected) <= m
           /\ \A k \in 1..Len(selected) :
                 /\ (k - 1) * s < n
                 /\ selected[k] = valid[(k - 1) * s + 1]
           /\ Len(selected) < m => Len(selected) * s >= n
           /\ \A k, i \in 1..Len(selected) :
                 k < i => selected[k].start_time < selected[i].start_time

\* five valid chunks and a limit of two: stride 2, the chunks 0 and 2, the
\* chunk 4 cut off by the limit
C34_Witness ==
    /\ locals.fn = "generate_clips_from_pipeline_result" /\ locals.fallback_used
    /\ locals.at = "generate"
    /\ Len(valid_chunks(locals.chunks)) = 5
    /\ Len(locals.chunks) = 5
    /\ locals.max_clips = 2
    /\ [k \in 1..Len(locals.selected_chunks) |-> locals.selected_chunks[k].start_time] = <<1, 3>>


\* C36: after the clip extraction, a top clip that received clip file
\* fields received those of the file cut from its own start and end time,
\* also when an earlier top clip failed or was skipped.
C36_OwnClipFile ==
    (locals.fn = "generate_clips_from_pipeline_result" /\ locals.at = "returned") =>
        \A k \in 1..Len(locals.updated) :
            locals.updated[k] # << >> =>
                locals.updated[k][1].start_time = locals.top_clips[k].start_time


\* C39: with the default settings (chunk 8 s, minimum 3 s, maximum 10 s)
\* the chunks that adaptive chunking returns have pairwise distinct ids,
\* intervals in increasing order that do not overlap, and each a duration
\* of at least the minimum and at most the maximum.
C39_AdaptiveChunks ==
    (locals.fn = "chunk_video_adaptive" /\ locals.at = "returned") =>
        LET chunks_out == locals.refined_chunks
        IN /\ \A k, m \in 1..Len(chunks_out) :
                 k < m => /\ chunks_out[k].id # chunks_out[m].id
                          /\ chunks_out[k].end_time <= chunks_out[m].start_time
           /\ \A k \in 1..Len(chunks_out) :
                 /\ chunks_out[k].start_time < chunks_out[k].end_time
                 /\ chunks_out[k].end_time - chunks_out[k].start_time >= 3
                 /\ chunks_out[k].end_time - chunks_out[k].start_time <= 10
                 /\ chunks_out[k].duration = chunks_out[k].end_time - chunks_out[k].start_time

\* a scene chunk of 12 s is split in two and followed by one of 9 s that
\* is kept whole, with the id after those of the pieces
C39_Witness ==
    /\ locals.fn = "chunk_video_adaptive" /\ locals.at = "returned"
    /\ locals.duration = 21 /\ locals.detected = {12}
    /\ [k \in 1..Len(locals.refined_chunks) |->
           <<locals.refined_chunks[k].id, locals.refined_chunks[k].start_time,
             locals.refined_chunks[k].end_time>>]
         = <<<<0, 0, 8>>, <<1, 8, 12>>, <<2, 12, 21>>>>


\* C35: whatever the chunks, the interleaving and the outcomes of the
\* transcriptions, transcribe_chunks returns one result for each chunk, at
\* the chunk's index, marked success or failure; a failing chunk stops
\* neither the other chunks nor the return; and the progress callback is
\* called exactly once for each chunk.
C35_OneResultOneCallback ==
    (locals.fn = "transcribe_chunks" /\ locals.at = "returned") =>
        /\ DOMAIN locals.valid_results = DOMAIN locals.tasks
        /\ \A i \in DOMAIN locals.tasks :
              /\ locals.tasks[i] = "done"
              /\ locals.valid_results[i] \in {"success", "failure"}
              /\ locals.callbacks[i] = 1


\* a step of the worker of job j, or of one of its chunk tasks
WorkerStep(j) ==
    <<pc[j], chunks[j], download[j], calls[j], raised[j], used_language[j],
      final_result[j], profiled[j], processed_clips[j], mute_regions[j],
      mixer[j]>>' #
    <<pc[j], chunks[j], download[j], calls[j], raised[j], used_language[j],
      final_result[j], profiled[j], processed_clips[j], mute_regions[j],
      mixer[j]>>

\* C37: once a client has deleted a job whose worker is still running, no
\* step puts a record under that id into a registry again, and no later
\* step of that worker, its error path included, changes the record of any
\* job: the deleted id stays not found.
C37_DeletedStaysDeleted ==
    [][\A j \in JobIds :
          /\ j \in deleted' =>
                j \notin DOMAIN processing_jobs' \cup DOMAIN render_jobs'
          /\ (j \in deleted /\ WorkerStep(j)) =>
                UNCHANGED <<processing_jobs, render_jobs>>
      ]_vars

\* the worker of a deleted job has hit the missing record and ended, while
\* the record of another, running job is in its registry
C37_Witness ==
    \E j \in deleted, k \in JobIds \ deleted :
        /\ pc[j] = "crashed"
        /\ Present(k) /\ Rec(k).status \in RunningStatus

\* C38: the profiler registry holds only ids of URL analysis jobs whose
\* worker has started and has not ended, so that after the end of such a
\* worker, by completion, by a download failure or by a pipeline failure,
\* no entry of its id is left.
C38_ProfilersOfRunningWorkers ==
    \A j \in JobIds :
        j \in active_profilers =>
            kind[j] = "url" /\ pc[j] \notin Ended \cup {"none", "reading", "queued"}

\* a URL job has ended failed, another has ended completed, and neither
\* has left an entry
C38_Witness ==
    \E j, k \in JobIds :
        /\ kind[j] = "url" /\ kind[k] = "url"
        /\ pc[j] = "done" /\ pc[k] = "done"
        /\ Present(j) /\ Rec(j).status = "failed"
        /\ Present(k) /\ Rec(k).status = "completed"
        /\ active_profilers = {}

====
